---- MODULE Spec2Model ----
(***************************************************************************)
(* News pipeline: the cron-job supervisor (routers/cronjob.py) with its    *)
(* three pollers, and the stages Fetch (routers/getnews.py), Filter        *)
(* (routers/filter.py) and Analyze (routers/analyze.py, with rewrite_news  *)
(* of routers/inference.py).                                               *)
(*                                                                         *)
(* The supervisor and the pollers run on one asyncio event loop, so a step *)
(* of the model is what a coroutine does between two suspension points     *)
(* (await of the HTTP call, await of asyncio.sleep).  The stage a poller   *)
(* calls runs behind BASE_URL: it is a request handler of its own, which   *)
(* keeps executing when the poller's request is abandoned (the 10 s client *)
(* timeout, or the cancellation of the poller task).                       *)
(***************************************************************************)
EXTENDS Integers, Sequences, FiniteSets, TLC

\* ------------------------------------------------------------------ bounds
\* successful start_cronjob calls in one run
MaxStarts == 2
\* stage invocations of one poller executing at the same time
MaxInflight == 2

\* --------------------------------------------------------------- constants
SleepNews == 180
SleepFilter == 120
SleepAnalyzeShort == 60
SleepAnalyzeLong == 180

Stages == {"news", "filter", "analyze"}
Pollers == (1..MaxStarts) \X Stages
EmptyDict == <<>>
\* JSON null / Python None where a string is expected
JsonNull == "<null>"

\* dict.get(key, default)
Get(d, k, default) == IF k \in DOMAIN d THEN d[k] ELSE default

\* str.lower() on the relevance strings of the model
Lower(s) ==
  CASE s = "High" -> "high"
    [] s = "MEDIUM" -> "medium"
    [] OTHER -> s

\* ------------------------------------------------ Filter stage: the policy
\* The classifier's answer as filter_news returns it: only the keys the model
\* gave, none substituted.  The four keys the retention policy and the Filter
\* poller read are modelled; a key may be missing, relevance may be a string
\* in another letter case or JSON null.
OptBool == {{}, {TRUE}, {FALSE}}
RelevanceValues == {"low", "medium", "high", "viral", "High", JsonNull}
OptRelevance == {{}} \cup {{r} : r \in RelevanceValues}
Entry(k, c) == [x \in (IF c = {} THEN {} ELSE {k}) |-> CHOOSE v \in c : TRUE]
FilterDicts ==
  { Entry("duplication", a) @@ Entry("is_news_content", b)
      @@ Entry("brazil_interest", c) @@ Entry("relevance", r) :
    a \in OptBool, b \in OptBool, c \in OptBool, r \in OptRelevance }

\* str(value) of a relevance value; a missing key reads as None
PyStr(v) == IF v = JsonNull THEN "None" ELSE v

ReasonDuplication == "duplicação detectada"
ReasonNotNews == "conteúdo não é notícia"
ReasonBrazil == "baixo interesse para o Brasil"
ReasonRelevance(v) == "relevância insuficiente (" \o PyStr(v) \o ")"

AcceptedRelevance == {"medium", "high", "viral"}

\* should_skip_insertion(filters) -> (skip, reason)
should_skip_insertion(filters) ==
  IF Get(filters, "duplication", FALSE)
    THEN <<TRUE, ReasonDuplication>>
  ELSE IF ~Get(filters, "is_news_content", TRUE)
    THEN <<TRUE, ReasonNotNews>>
  ELSE IF ~Get(filters, "brazil_interest", TRUE)
    THEN <<TRUE, ReasonBrazil>>
  ELSE IF Get(filters, "relevance", "") \notin AcceptedRelevance
    THEN <<TRUE, ReasonRelevance(Get(filters, "relevance", JsonNull))>>
  ELSE <<FALSE, "">>

\* ---------------------------------------- what a poller's call can bring back
Response(status, body) == [kind |-> "response", status |-> status, body |-> body, exc |-> ""]
Raised(exc) == [kind |-> "exception", status |-> 0, body |-> EmptyDict, exc |-> exc]

\* httpx errors of client.get/post, and response.json() failing on the body
CallExceptions == {"timeout", "transport", "malformed"}

\* body of a 200 of POST /filter (filter_endpoint, both return statements)
FilterBody(d) ==
  IF should_skip_insertion(d)[1]
    THEN [filter |-> d, skipped |-> TRUE, skip_reason |-> should_skip_insertion(d)[2]]
    ELSE [filter |-> d, skipped |-> FALSE]

NewsOutcomes ==
  {Response(st, EmptyDict) : st \in {200, 500, 502}}
    \cup {Raised(e) : e \in CallExceptions}
FilterOutcomes ==
  {Response(200, FilterBody(d)) : d \in FilterDicts}
    \cup {Response(st, EmptyDict) : st \in {400, 404, 500}}
    \cup {Raised(e) : e \in CallExceptions}
AnalyzeOutcomes ==
  {Response(200, [rewrite_result |-> [success |-> b]]) : b \in BOOLEAN}
    \cup {Response(st, EmptyDict) : st \in {200, 400, 500}}
    \cup {Raised(e) : e \in CallExceptions}

\* ------------------------------------------------------ the pollers' policies
\* How one iteration goes on: asyncio.sleep(dur) and then the loop head,
\* `continue` without a sleep, or an exception that leaves the coroutine.
Sleep(n) == [next |-> "sleep", dur |-> n]
Continue == [next |-> "continue", dur |-> 0]
Reraise == [next |-> "raise", dur |-> 0]

\* `except Exception`: every error of the call is caught; asyncio.CancelledError
\* derives from BaseException and is not.
ExceptCatchesNone(exc) == FALSE
ExceptCatches(exc) == exc # "CancelledError"

\* the body of an `except Exception as e:` clause that ends in the sleep `then`
OnExcept(exc, then) == IF ExceptCatches(exc) THEN then ELSE Reraise

\* fetch_news: one iteration after client.get("/news") ended with outcome o
NewsPolicy(o) ==
  IF o.kind = "exception" THEN OnExcept(o.exc, Sleep(SleepNews))
  ELSE Sleep(SleepNews)

PollerRelevance == {"medium", "high", "viral"}

\* fetch_filter: one iteration after client.post("/filter") ended with outcome o
FilterPolicy(o) ==
  IF o.kind = "exception" THEN OnExcept(o.exc, Sleep(SleepFilter))
  ELSE IF o.status = 200 THEN
    LET f == Get(o.body, "filter", EmptyDict)
        is_news_content == Get(f, "is_news_content", FALSE)
        relevance == Get(f, "relevance", "low")
        brazil_interest == Get(f, "brazil_interest", FALSE)
    IN  IF relevance = JsonNull
          THEN OnExcept("AttributeError", Sleep(SleepFilter))
        ELSE IF \/ ~is_news_content
                \/ Lower(relevance) \notin PollerRelevance
                \/ ~brazil_interest
          THEN Continue
        ELSE Sleep(SleepFilter)
  ELSE Sleep(SleepFilter)

AnalyzePolicyMut(o) ==
  IF o.kind = "exception"
    THEN OnExcept(o.exc, Sleep(SleepAnalyzeShort))
  ELSE IF o.status = 200 THEN Sleep(SleepAnalyzeLong)
  ELSE Sleep(SleepAnalyzeShort)

\* fetch_analyze: one iteration after client.post("/analyze") ended with outcome o
AnalyzePolicy(o) ==
  IF o.kind = "exception"
    THEN OnExcept(o.exc, Sleep(SleepAnalyzeShort))
  ELSE IF o.status = 200 THEN
    LET success == Get(Get(o.body, "rewrite_result", EmptyDict), "success", FALSE)
    IN  IF ~success
          THEN Sleep(SleepAnalyzeShort)
          ELSE Sleep(SleepAnalyzeLong)
  ELSE Sleep(SleepAnalyzeShort)

Policy(s, o) ==
  CASE s = "news" -> NewsPolicy(o)
    [] s = "filter" -> FilterPolicy(o)
    [] s = "analyze" -> AnalyzePolicy(o)

LoopConditionMut(flags, s) == Get(flags, s, FALSE)
\* `while not stop_flags.get(stage)`: a missing key reads None, which is falsy
LoopCondition(flags, s) == ~Get(flags, s, FALSE)

\* ---------------------------------------------------------------- the state
VARIABLES
  tasks,        \* cronjob.tasks: stage name -> task (poller)
  stop_flags,   \* cronjob.stop_flags: stage name -> bool
  gen,          \* number of successful start_cronjob calls
  ctl,          \* what the last control call returned
  pc,           \* per poller task: where its coroutine is suspended
  must_cancel,  \* tasks with a cancellation requested and not yet delivered
  watch,        \* the poller the observer follows in this run
  srv,          \* of the watched poller: its stage invocations executing on the server
  last,         \* of the watched poller: what its last finished iteration observed
  slept,        \* of the watched poller: the sleep chosen after that iteration (0: none)
  diedAt,       \* of the watched poller: the suspension point the cancellation hit
  news_extraction,  \* datastore table news_extraction: the WorkItems
  news,             \* datastore table news: the long-lived store, oldest row first
  finv,             \* per Filter invocation: where filter_endpoint is suspended,
                    \* the item it selected and the response it prepared
  upstream,         \* the entries the upstream API lists, movieNews then tvNews
  ginv,             \* per Fetch invocation: where get_news is suspended, with
                    \* its existing_ids and the status it answered
  inference_module, \* analyze.inference_module: whether inference.py was loaded
  ainv,             \* per Analyze invocation: where analyze_endpoint is suspended,
                    \* the row it selected, its rewrite result, the answer of
                    \* the encyclopedia and what it answered
  analyses          \* analyze_endpoint invocations that have arrived

schedVars ==
  <<tasks, stop_flags, gen, ctl, pc, must_cancel, watch, srv, last, slept, diedAt>>
fetchVars == <<upstream, ginv>>
analyzeVars == <<inference_module, ainv, analyses>>
stageVars == <<news_extraction, news, finv, fetchVars, analyzeVars>>
vars == <<schedVars, stageVars>>

\* ------------------------------------------------------------ observations
DropKey(d, k) == [x \in DOMAIN d \ {k} |-> d[x]]

NoObs ==
  [kind |-> "none", status |-> 0, exc |-> "", skipped |-> FALSE,
   skip_reason |-> "", criteria_failed |-> FALSE, success |-> FALSE]

\* What the iteration that ended with outcome o saw of the stage's own result:
\* for Filter the stage's decision (skipped, skip_reason) and whether one of its
\* predicates other than duplication failed; for Analyze rewrite_result.success.
Observe(s, o) ==
  LET ok == o.kind = "response" /\ o.status = 200
      f == IF ok /\ s = "filter" THEN o.body.filter ELSE EmptyDict
  IN  [kind |-> o.kind, status |-> o.status, exc |-> o.exc,
       skipped |-> IF ok /\ s = "filter" THEN o.body.skipped ELSE FALSE,
       skip_reason |-> IF ok /\ s = "filter" THEN Get(o.body, "skip_reason", "") ELSE "",
       criteria_failed |->
         IF ok /\ s = "filter"
           THEN should_skip_insertion(DropKey(f, "duplication"))[1]
           ELSE FALSE,
       success |->
         IF ok /\ s = "analyze"
           THEN Get(Get(o.body, "rewrite_result", EmptyDict), "success", FALSE)
           ELSE FALSE]

Watched(p) == p = watch

\* What CallEnds needs of an outcome: how the iteration goes on, what the
\* observer records, and whether the invocation is left running on the server.
Effect(s, o) ==
  [d |-> Policy(s, o), obs |-> Observe(s, o),
   left |-> o.kind = "exception" /\ o.exc \in {"timeout", "CancelledError"}]
NewsEffects == {Effect("news", o) : o \in NewsOutcomes}
FilterEffects == {Effect("filter", o) : o \in FilterOutcomes}
AnalyzeEffects == {Effect("analyze", o) : o \in AnalyzeOutcomes}
Effects(s) ==
  CASE s = "news" -> NewsEffects
    [] s = "filter" -> FilterEffects
    [] s = "analyze" -> AnalyzeEffects

\* ----------------------------------------------------------------- supervisor
Result(op, r) == [op |-> op, result |-> r]

\* `if tasks:` of start_cronjob
AlreadyRunningMut(t) == FALSE
AlreadyRunning(t) == DOMAIN t # {}

\* `if not tasks:` of stop_cronjob
NothingRunning(t) == DOMAIN t = {}

\* `for t in tasks.values(): t.cancel()`
CancelTargetsMut(t) == {}
CancelTargets(t) == {t[s] : s \in DOMAIN t}

TasksAfterStartMut(g) == [s \in {"news"} |-> <<g, s>>]
\* `tasks["news"] = ...`, `tasks["filter"] = ...`, `tasks["analyze"] = ...`
TasksAfterStart(g) == [s \in Stages |-> <<g, s>>]

\* `tasks = {}` of stop_cronjob
TasksAfterStopMut(t) == t
TasksAfterStop(t) == EmptyDict

SchedInit ==
  /\ tasks = EmptyDict
  /\ stop_flags = EmptyDict
  /\ gen = 0
  /\ ctl = Result("none", "none")
  /\ pc = [p \in Pollers |-> "none"]
  /\ must_cancel = {}
  /\ watch \in Pollers
  /\ srv = [p \in Pollers |-> 0]
  /\ last = [p \in Pollers |-> NoObs]
  /\ slept = [p \in Pollers |-> 0]
  /\ diedAt = [p \in Pollers |-> "none"]

\* ----------------------------------------------------- Filter stage: state
\* WorkItems of the table news_extraction, numbered in the order of created_at
MaxItems == 2
\* filter_endpoint invocations in one run; they may overlap (the poller's
\* request, an abandoned one, a direct POST /filter)
MaxInvocations == 2
Items == 1..MaxItems
Invocations == 1..MaxInvocations

\* What the upstream API gives for the title and the url of an article, which
\* get_news stores as they come: a text, an empty text, or null.
Titles == {"Title", "", JsonNull}
\* A row of news_extraction as filter_endpoint reads it: news_id (Fetch stores
\* the upstream id, which is never empty), used, and title, which stands for
\* the title and the url: filter_endpoint checks both alike.
WorkItem(id, used, title) == [news_id |-> id, used |-> used, title |-> title]

NoResponse == Response(0, EmptyDict)
\* What a call of extract_article_text found: the outcome of the primary
\* method, the one of the generic method, the method whose text it returned
\* and the length of that text.  Before the call: nothing.
NotTried == [tried |-> FALSE, raised |-> FALSE, status |-> 0, len |-> 0]
Extraction(primary, generic, method, len) ==
  [primary |-> primary, generic |-> generic, method |-> method, len |-> len]
NoExtraction == Extraction(NotTried, NotTried, "none", 0)
Idle == [pc |-> "idle", item |-> 0, resp |-> NoResponse, extraction |-> NoExtraction]

\* Between two pollings nothing runs in the stage.
StageQuiet ==
  /\ news_extraction = [i \in Items |-> WorkItem(i, FALSE, "Title")]
  /\ news = <<>>
  /\ finv = [k \in Invocations |-> Idle]

\* ------------------------------------------------------ Fetch stage: state
\* get_news invocations in one run
MaxFetches == 2
\* length of the list the upstream API returns
MaxUpstream == 2
\* `range(0, len(all_ids), 1000)`
ChunkSize == 1000
Fetches == 1..MaxFetches
\* the list `combined`: the entries of movieNews, then those of tvNews
UpstreamLists ==
  UNION {[1..n -> [news_id : Items, title : Titles]] : n \in 0..MaxUpstream}

\* dated: every entry of the list `combined` has a date
FetchAt(pc_, chunk, existing, status, dated) ==
  [pc |-> pc_, chunk |-> chunk, existing_ids |-> existing, status |-> status,
   dated |-> dated]
FetchIdle == FetchAt("idle", 0, {}, 0, TRUE)

FetchQuiet ==
  /\ upstream = <<>>
  /\ ginv = [g \in Fetches |-> FetchIdle]

\* ---------------------------------------------------- Analyze stage: state
\* analyze_endpoint invocations in one run
MaxAnalyses == 2
\* rows of the table news at the start of a run
MaxRows == 2

\* What rewrite_article left behind, before it has run: no result, no direct
\* call, no HTTP call.
NoRewrite ==
  [result |-> [success |-> FALSE, method |-> "none"],
   direct |-> [kind |-> "not_called", data |-> EmptyDict],
   http |-> <<>>]
\* What the encyclopedia answered, before it has been asked.
NoWiki == [kind |-> "not_asked", status |-> 0, pages |-> <<>>]
AnalyzeAt(pc_, id, rewrite, resp) ==
  [pc |-> pc_, id |-> id, rewrite |-> rewrite, wiki |-> NoWiki, resp |-> resp]
AnalyzeIdle == AnalyzeAt("idle", 0, NoRewrite, NoResponse)
AnalyzeInvocations == 1..MaxAnalyses

AnalyzeQuiet ==
  /\ inference_module = TRUE
  /\ ainv = [a \in AnalyzeInvocations |-> AnalyzeIdle]
  /\ analyses = 0

Init == SchedInit /\ StageQuiet /\ FetchQuiet /\ AnalyzeQuiet

\* GET /start-cronjob.  The handler has no await: it runs as one step.
start_cronjob ==
  \/ /\ AlreadyRunning(tasks)
     /\ ctl' = Result("start", "AlreadyRunning")
     /\ UNCHANGED <<tasks, stop_flags, gen, pc, must_cancel, srv, last, slept, diedAt>>
     /\ UNCHANGED <<watch, stageVars>>
  \/ /\ ~AlreadyRunning(tasks)
     /\ gen < MaxStarts
     /\ gen' = gen + 1
     /\ stop_flags' = [s \in Stages |-> FALSE]
     /\ tasks' = TasksAfterStart(gen + 1)
     /\ pc' = [p \in Pollers |-> IF p[1] = gen + 1 THEN "ready" ELSE pc[p]]
     /\ ctl' = Result("start", "ok")
     /\ UNCHANGED <<must_cancel, srv, last, slept, diedAt>>
     /\ UNCHANGED <<watch, stageVars>>

Finished == {"cancelled", "exited", "crashed"}

\* GET /stop-cronjob.  The handler has no await: it runs as one step, so the
\* flags it sets to True are replaced by {} before any poller can read them.
stop_cronjob ==
  \/ /\ NothingRunning(tasks)
     /\ ctl' = Result("stop", "NothingRunning")
     /\ UNCHANGED <<tasks, stop_flags, gen, pc, must_cancel, srv, last, slept, diedAt>>
     /\ UNCHANGED <<watch, stageVars>>
  \/ /\ ~NothingRunning(tasks)
     /\ must_cancel' =
          must_cancel \cup {t \in CancelTargets(tasks) : pc[t] \notin Finished}
     /\ tasks' = TasksAfterStop(tasks)
     /\ stop_flags' = EmptyDict
     /\ ctl' = Result("stop", "ok")
     /\ last' = [p \in Pollers |-> IF p \in must_cancel' THEN NoObs ELSE last[p]]
     /\ slept' = [p \in Pollers |-> IF p \in must_cancel' THEN 0 ELSE slept[p]]
     /\ UNCHANGED <<gen, pc, srv, diedAt>>
     /\ UNCHANGED <<watch, stageVars>>

\* -------------------------------------------------------------------- pollers
\* The head of the while loop, reached with n invocations of the poller still
\* executing: the flag is read and, if it is not set, the request is sent and
\* the coroutine suspends in client.get / client.post.
EnterLoop(p, n) ==
  IF LoopCondition(stop_flags, p[2])
    THEN [pc |-> "call", srv |-> n + 1]
    ELSE [pc |-> "exited", srv |-> n]

\* The observer's record of a watched poller; nothing for the others.
Record(p, n, obs, dur) ==
  /\ srv' = [srv EXCEPT ![p] = IF Watched(p) THEN n ELSE @]
  /\ last' = [last EXCEPT ![p] = IF Watched(p) THEN obs ELSE @]
  /\ slept' = [slept EXCEPT ![p] = IF Watched(p) THEN dur ELSE @]

\* First step of the task created by asyncio.create_task.
PollerStart(p) ==
  /\ pc[p] = "ready"
  /\ p \notin must_cancel
  /\ pc' = [pc EXCEPT ![p] = EnterLoop(p, srv[p]).pc]
  /\ Record(p, EnterLoop(p, srv[p]).srv, last[p], slept[p])
  /\ UNCHANGED <<tasks, stop_flags, gen, ctl, must_cancel, watch, diedAt, stageVars>>

\* The rest of one iteration: the call ended with an outcome of effect e, the
\* body of the loop runs to its sleep or, on continue, through the loop head to
\* the next call.  After a timeout (timeout=10.0 of the AsyncClient) or a
\* cancellation the invocation the call started goes on executing.
Iterate(p, e) ==
  LET n == IF e.left \/ ~Watched(p) THEN srv[p] ELSE srv[p] - 1
      nxt == IF e.d.next = "sleep" THEN [pc |-> "sleep", srv |-> n]
             ELSE IF e.d.next = "raise" THEN [pc |-> "crashed", srv |-> n]
             ELSE EnterLoop(p, n)
  IN  /\ Watched(p) => nxt.srv <= MaxInflight
      /\ pc' = [pc EXCEPT ![p] = nxt.pc]
      /\ Record(p, nxt.srv, e.obs, e.d.dur)

CallEnds(p) ==
  /\ pc[p] = "call"
  /\ p \notin must_cancel
  /\ \E e \in Effects(p[2]) : Iterate(p, e)
  /\ UNCHANGED <<tasks, stop_flags, gen, ctl, must_cancel, watch, diedAt, stageVars>>

\* asyncio.sleep returns.
Wake(p) ==
  /\ pc[p] = "sleep"
  /\ p \notin must_cancel
  /\ Watched(p) => srv[p] < MaxInflight
  /\ pc' = [pc EXCEPT ![p] = EnterLoop(p, srv[p]).pc]
  /\ Record(p, EnterLoop(p, srv[p]).srv, last[p], slept[p])
  /\ UNCHANGED <<tasks, stop_flags, gen, ctl, must_cancel, watch, diedAt, stageVars>>

\* Invocations of p that nobody waits for any more.
Abandoned(p) == srv[p] - (IF pc[p] = "call" /\ p \notin must_cancel THEN 1 ELSE 0)

\* An abandoned invocation returns on the server.
StageReturns(p) ==
  /\ Watched(p)
  /\ Abandoned(p) > 0
  /\ srv' = [srv EXCEPT ![p] = srv[p] - 1]
  /\ UNCHANGED <<tasks, stop_flags, gen, ctl, pc, must_cancel, watch, last, slept,
                 diedAt, stageVars>>

\* Whether an exception raised by the await the task is suspended in meets the
\* except clause of the loop body: the call is inside the try block.  (So are
\* the two 60 s sleeps of fetch_analyze's try block, which the model does not
\* tell apart from its other sleeps: the only exception a sleep raises is
\* CancelledError, which the clause does not catch.)
InTry(p) == pc[p] = "call"

\* The event loop resumes a task whose cancellation was requested: the await it
\* is suspended in raises CancelledError.  A task that never ran is cancelled
\* without running.
Cancelled(p) ==
  /\ p \in must_cancel
  /\ must_cancel' = must_cancel \ {p}
  /\ IF InTry(p) /\ ExceptCatches("CancelledError")
       THEN /\ Iterate(p, Effect(p[2], Raised("CancelledError")))
            /\ UNCHANGED diedAt
       ELSE /\ pc' = [pc EXCEPT ![p] = "cancelled"]
            /\ diedAt' = [diedAt EXCEPT ![p] = IF Watched(p) THEN pc[p] ELSE @]
            /\ UNCHANGED <<srv, last, slept>>
  /\ UNCHANGED <<tasks, stop_flags, gen, ctl, watch, stageVars>>

Next ==
  \/ start_cronjob
  \/ stop_cronjob
  \/ \E p \in Pollers : PollerStart(p)
  \/ \E p \in Pollers : CallEnds(p)
  \/ \E p \in Pollers : Wake(p)
  \/ \E p \in Pollers : StageReturns(p)
  \/ \E p \in Pollers : Cancelled(p)

Spec == Init /\ [][Next]_vars

\* The event loop runs every task that is ready, timers fire, and an
\* invocation on the server returns.
Fairness ==
  \A p \in Pollers :
    /\ WF_vars(PollerStart(p))
    /\ WF_vars(Wake(p))
    /\ WF_vars(StageReturns(p))
    /\ WF_vars(Cancelled(p))

\* One generation of pollers under that fairness.
LiveNext ==
  \/ start_cronjob /\ gen' <= 1
  \/ stop_cronjob
  \/ \E p \in Pollers : PollerStart(p)
  \/ \E p \in Pollers : CallEnds(p)
  \/ \E p \in Pollers : Wake(p)
  \/ \E p \in Pollers : StageReturns(p)
  \/ \E p \in Pollers : Cancelled(p)

LiveSpec == Init /\ [][LiveNext]_vars /\ Fairness

\* ------------------------------------------------- Filter stage: the handler
\* POST /filter, filter_endpoint.  The datastore applies a request or refuses
\* it; mark_news_as_used looks neither at the answer of its PATCH nor at an
\* exception of the request.

\* `used=eq.false`, `order=created_at.asc`, `limit=1`
Unused(ne) == {i \in DOMAIN ne : ~ne[i].used}
Oldest(S) == CHOOSE i \in S : \A j \in S : i <= j

At(pc_, i, resp) ==
  [pc |-> pc_, item |-> i, resp |-> resp, extraction |-> NoExtraction]

\* fetch_unused_news and the checks on title and url.  get_ok: the GET was
\* answered 200.  Without a news_id the except clause marks nothing.  On a
\* title or url that is null `title.strip()` raises AttributeError, after
\* news_id was read: the except clause marks the item and answers 500; on an
\* empty one the ValueError of the check is answered 400.
AfterSelect(ne, get_ok) ==
  IF ~get_ok THEN At("done", 0, Response(500, EmptyDict))
  ELSE IF Unused(ne) = {} THEN At("done", 0, Response(404, EmptyDict))
  ELSE LET i == Oldest(Unused(ne))
       IN  IF ne[i].title = JsonNull
             THEN At("mark", ne[i].news_id, Response(500, EmptyDict))
           ELSE IF ne[i].title = ""
             THEN At("mark", ne[i].news_id, Response(400, EmptyDict))
             ELSE At("extract", ne[i].news_id, NoResponse)

\* `len(article.text.strip()) > 100`, `len(extracted_text.strip()) > 100`
MinViableLength == 100
\* Lengths of the text a method yields, after strip()
TextLengths == {0, MinViableLength - 1, MinViableLength, MinViableLength + 1}
Tried(raised, status, len) == [tried |-> TRUE, raised |-> raised, status |-> status, len |-> len]
\* newspaper3k: download() or parse() raises, or article.text has a length
PrimaryOutcomes == {Tried(TRUE, 0, 0)} \cup {Tried(FALSE, 200, n) : n \in TextLengths}
\* httpx and trafilatura: the GET raises, is answered with another status
\* than 200, or trafilatura.extract gives a text (None counts as length 0)
GenericOutcomes ==
  {Tried(TRUE, 0, 0), Tried(FALSE, 404, 0)} \cup {Tried(FALSE, 200, n) : n \in TextLengths}

\* `text and len(text.strip()) > 100`
Viable(n) == n > MinViableLength

\* extract_article_text(url); p and g are what the two methods would yield
extract_article_text(p, g) ==
  IF ~p.raised /\ Viable(p.len)
    THEN Extraction(p, NotTried, "primary", p.len)
  ELSE IF ~g.raised /\ g.status = 200 /\ Viable(g.len)
    THEN Extraction(p, g, "generic", g.len)
  ELSE Extraction(p, g, "none", 0)

\* `if not full_text.strip(): raise ValueError(...)`, which the except clause
\* answers with 400 after marking the item
AfterExtract(i, e) ==
  IF e.len = 0
    THEN [At("mark", i, Response(400, EmptyDict)) EXCEPT !.extraction = e]
    ELSE [At("classify", i, NoResponse) EXCEPT !.extraction = e]

\* What filter_news comes back with: an error of the classifier, or its answer.
Classified(kind, d) == [kind |-> kind, filter |-> d]
Classifications ==
  {Classified("error", EmptyDict)} \cup {Classified("filter", d) : d \in FilterDicts}

\* The 200 of filter_endpoint: FilterBody and the news_id of the item
StageBody(i, d) == [news_id |-> i] @@ FilterBody(d)

\* From the classification to the first write: the policy decides between the
\* skip (mark only) and the insert; an exception goes to the except clause,
\* which marks the item and answers 500.  What the extraction methods yielded
\* is not followed further.
AfterClassify(i, c) ==
  IF c.kind = "error" THEN At("mark", i, Response(500, EmptyDict))
  ELSE IF should_skip_insertion(c.filter)[1]
    THEN At("mark", i, Response(200, StageBody(i, c.filter)))
    ELSE At("insert", i, Response(200, StageBody(i, c.filter)))

\* insert_news_to_db: the payload is the title and the extracted text, neither
\* of them empty at this point, the news_id and the filter's keys (url and
\* image are not modelled)
Row(i, d) == d @@ [title_en |-> "Title", text_en |-> "Text", news_id |-> i]

\* Items and invocations at the start of a run of the stage.  The title of a
\* used item is never read: the used items have a text for it.
StageInit ==
  /\ news_extraction \in
       {[i \in Items |-> WorkItem(i, u[i], t[i])] :
          u \in [Items -> BOOLEAN], t \in [Items -> Titles]}
  /\ \A i \in Items : news_extraction[i].used => news_extraction[i].title = "Title"
  /\ news = <<>>
  /\ finv = [k \in Invocations |-> Idle]

StageSpecInit ==
  SchedInit /\ watch = <<1, "filter">> /\ StageInit /\ FetchQuiet /\ AnalyzeQuiet

\* The request arrives and the GET of fetch_unused_news is answered.
FilterSelect(k) ==
  /\ finv[k].pc = "idle"
  /\ \E get_ok \in BOOLEAN :
       finv' = [finv EXCEPT ![k] = AfterSelect(news_extraction, get_ok)]
  /\ UNCHANGED <<news_extraction, news, schedVars, fetchVars, analyzeVars>>

\* fetch_last_50_titles, which returns [] on any failure, and
\* extract_article_text: no write to the datastore.
FilterExtract(k) ==
  /\ finv[k].pc = "extract"
  /\ \E p \in PrimaryOutcomes, g \in GenericOutcomes :
       finv' = [finv EXCEPT ![k] = AfterExtract(finv[k].item, extract_article_text(p, g))]
  /\ UNCHANGED <<news_extraction, news, schedVars, fetchVars, analyzeVars>>

\* filter_news and the policy: no write to the datastore.
FilterClassify(k) ==
  /\ finv[k].pc = "classify"
  /\ \E c \in Classifications :
       finv' = [finv EXCEPT ![k] = AfterClassify(finv[k].item, c)]
  /\ UNCHANGED <<news_extraction, news, schedVars, fetchVars, analyzeVars>>

\* The POST of insert_news_to_db ends: answered 200/201; answered with another
\* status, which raises; or the request raises, before the datastore applied
\* it or with the answer lost after it did.  What is raised goes to the except
\* clause of the handler.
FilterInsert(k) ==
  /\ finv[k].pc = "insert"
  /\ \E post \in {"ok", "refused", "raised_applied"} :
       /\ news' = IF post = "refused" THEN news
                  ELSE Append(news, Row(finv[k].item, finv[k].resp.body.filter))
       /\ finv' = [finv EXCEPT ![k] =
                     IF post = "ok" THEN [finv[k] EXCEPT !.pc = "mark"]
                     ELSE At("mark", finv[k].item, Response(500, EmptyDict))]
  /\ UNCHANGED <<news_extraction, schedVars, fetchVars, analyzeVars>>

\* PATCH news_extraction?news_id=eq.<id> with {"used": true}
MarkUsed(ne, id) ==
  [j \in DOMAIN ne |->
     IF ne[j].news_id = id THEN [ne[j] EXCEPT !.used = TRUE] ELSE ne[j]]

\* mark_news_as_used, and the handler returns or raises its HTTPException.
\* patch_ok: the datastore applied the PATCH; when it answered with an error
\* status or the request raised, the `try`/`except: pass` goes on all the same.
FilterMark(k) ==
  /\ finv[k].pc = "mark"
  /\ \E patch_ok \in BOOLEAN :
       news_extraction' = IF patch_ok THEN MarkUsed(news_extraction, finv[k].item)
                                      ELSE news_extraction
  /\ finv' = [finv EXCEPT ![k].pc = "done"]
  /\ UNCHANGED <<news, schedVars, fetchVars, analyzeVars>>

StageNext ==
  \/ \E k \in Invocations : FilterSelect(k)
  \/ \E k \in Invocations : FilterExtract(k)
  \/ \E k \in Invocations : FilterClassify(k)
  \/ \E k \in Invocations : FilterInsert(k)
  \/ \E k \in Invocations : FilterMark(k)

StageSpec == StageSpecInit /\ [][StageNext]_vars

\* -------------------------------------------------- Fetch stage: the handler
\* GET /news, get_news.  The datastore applies a request, refuses it, or the
\* request raises (the client has timeout=10.0); get_news reads the status of
\* the dedup GET only, and catches no exception.

\* `all_ids = [item["news_id"] for item in combined]` and
\* all_ids[i:i + 1000] for the c-th value of i
Chunk(combined, c) ==
  LET all_ids == [n \in DOMAIN combined |-> combined[n].news_id]
  IN SubSeq(all_ids, (c - 1) * ChunkSize + 1,
            IF c * ChunkSize <= Len(all_ids) THEN c * ChunkSize ELSE Len(all_ids))
NumChunks(combined) == (Len(combined) + ChunkSize - 1) \div ChunkSize
Elems(seq) == {seq[n] : n \in DOMAIN seq}

\* rows the datastore returns for `news_id=in.(...)`
KnownIds(ne, chunk) == {ne[j].news_id : j \in DOMAIN ne} \cap Elems(chunk)

\* `[item for item in combined if item["news_id"] not in existing_ids]`
new_entries(combined, existing) ==
  LET F[n \in 0..Len(combined)] ==
        IF n = 0 THEN <<>>
        ELSE IF combined[n].news_id \notin existing
          THEN Append(F[n - 1], combined[n])
          ELSE F[n - 1]
  IN  F[Len(combined)]

\* `return sorted(combined, key=lambda x: x.get("date"), reverse=True)`: the
\* status of the answer.  Comparing a date that is None raises TypeError,
\* which leaves get_news uncaught; one entry alone is not compared.
Sorted(combined, dated) == IF Len(combined) >= 2 /\ ~dated THEN 500 ELSE 200

\* An exception of a request to the datastore leaves get_news uncaught.
FetchRaised(f) == [f EXCEPT !.pc = "done", !.status = 500]

\* The dedup loop at its c-th chunk, or past it: `if new_entries:` decides
\* between the insert and the return.
AtChunk(combined, c, existing, dated) ==
  IF c <= NumChunks(combined) THEN FetchAt("dedup", c, existing, 0, dated)
  ELSE IF new_entries(combined, existing) # <<>>
    THEN FetchAt("insert", c, existing, 0, dated)
  ELSE FetchAt("done", c, existing, Sorted(combined, dated), dated)

\* client.post(GRAPHQL_URL): 502 on another status than 200, 500 without
\* "data", else the list `combined`
AfterUpstream(combined, answer) ==
  IF answer = "bad_status" THEN FetchAt("done", 0, {}, 502, TRUE)
  ELSE IF answer = "no_data" THEN FetchAt("done", 0, {}, 500, TRUE)
  ELSE AtChunk(combined, 1, {}, answer = "ok")

\* The rows a bulk insert of these entries appends: news_id, title and url as
\* upstream gave them, used by the default of its column
FetchedRows(entries) ==
  [n \in 1..Len(entries) |-> WorkItem(entries[n].news_id, FALSE, entries[n].title)]

FetchSpecInit ==
  /\ SchedInit /\ watch = <<1, "news">>
  /\ upstream \in UpstreamLists
  /\ ginv = [g \in Fetches |-> FetchIdle]
  /\ \E known \in UpstreamLists :
       /\ \A n, m \in DOMAIN known : n < m => known[n].news_id < known[m].news_id
       /\ news_extraction = FetchedRows(known)
  /\ news = <<>>
  /\ finv = [k \in Invocations |-> Idle]
  /\ AnalyzeQuiet

\* The request arrives and the upstream API answers.
FetchUpstream(g) ==
  /\ ginv[g].pc = "idle"
  /\ \E answer \in {"ok", "ok_null_date", "bad_status", "no_data"} :
       ginv' = [ginv EXCEPT ![g] = AfterUpstream(upstream, answer)]
  /\ UNCHANGED <<upstream, news_extraction, news, finv, schedVars, analyzeVars>>

\* The GET of one chunk ends: answered 200 its news_ids extend existing_ids,
\* answered with another status nothing does, and when it raises get_news
\* ends with 500.
FetchDedup(g) ==
  /\ ginv[g].pc = "dedup"
  /\ \E get \in {"ok", "refused", "raised"} :
       LET found == IF get = "ok"
                      THEN KnownIds(news_extraction, Chunk(upstream, ginv[g].chunk))
                      ELSE {}
       IN  ginv' = [ginv EXCEPT ![g] =
                      IF get = "raised" THEN FetchRaised(ginv[g])
                      ELSE AtChunk(upstream, ginv[g].chunk + 1,
                                   ginv[g].existing_ids \cup found, ginv[g].dated)]
  /\ UNCHANGED <<upstream, news_extraction, news, finv, schedVars, analyzeVars>>

\* The bulk POST of new_entries ends: the datastore applied it, or refused it,
\* which get_news does not notice, or the request raised, before the datastore
\* applied it or with the answer lost after it did; then the handler returns
\* the sorted list.
FetchInsert(g) ==
  /\ ginv[g].pc = "insert"
  /\ \E post \in {"ok", "refused", "raised", "raised_applied"} :
       /\ news_extraction' =
            IF post \in {"ok", "raised_applied"}
              THEN news_extraction
                     \o FetchedRows(new_entries(upstream, ginv[g].existing_ids))
              ELSE news_extraction
       /\ ginv' = [ginv EXCEPT ![g] =
                     IF post \in {"raised", "raised_applied"} THEN FetchRaised(ginv[g])
                     ELSE [ginv[g] EXCEPT !.pc = "done",
                                          !.status = Sorted(upstream, ginv[g].dated)]]
  /\ UNCHANGED <<upstream, news, finv, schedVars, analyzeVars>>

FetchNext ==
  \/ \E g \in Fetches : FetchUpstream(g)
  \/ \E g \in Fetches : FetchDedup(g)
  \/ \E g \in Fetches : FetchInsert(g)

FetchSpec == FetchSpecInit /\ [][FetchNext]_vars

\* ------------------------------------------------------------------ claims
Created(p) == pc[p] # "none"
Registered(p) == \E s \in DOMAIN tasks : tasks[s] = p
\* p was registered at a stop_cronjob that has returned
Stopped(p) == Created(p) /\ ~Registered(p)
\* p can still run its loop
Live(p) == pc[p] \in {"ready", "call", "sleep"} /\ p \notin must_cancel
\* this step sends a request of p to its stage
Begins(p) == pc'[p] = "call" /\ (pc[p] # "call" \/ CallEnds(p))
Failed(obs) ==
  \/ obs.kind = "exception"
  \/ obs.kind = "response" /\ obs.status # 200

\* C1: once stop_cronjob has returned, no poller that was registered at it
\* sends another request to its stage, whatever happens later (a new
\* start_cronjob included); its invocations already executing may return.
C1_NoNewInvocationAfterStop ==
  [][\A p \in Pollers : Stopped(p) => ~Begins(p)]_vars

\* C1 witness: start_cronjob ran again while a poller of the stopped generation
\* still waits for its cancellation, and a poller of the new generation calls.
C1_Witness ==
  \E p, q \in Pollers :
    /\ p[1] = 1 /\ Stopped(p) /\ p \in must_cancel /\ pc[p] = "sleep"
    /\ q[1] = 2 /\ Registered(q) /\ pc[q] = "call"

\* C2: start_cronjob called while pollers are registered answers
\* AlreadyRunning and changes neither the registry nor any poller.
C2_SecondStartFails ==
  [][(start_cronjob /\ DOMAIN tasks # {}) =>
       /\ ctl'.result = "AlreadyRunning"
       /\ UNCHANGED <<tasks, stop_flags, gen, pc, must_cancel>>]_vars

\* C2 witness: a start_cronjob was refused while the pollers of the first one run.
C2_Witness ==
  /\ ctl = Result("start", "AlreadyRunning")
  /\ gen = 1
  /\ \A s \in Stages : s \in DOMAIN tasks /\ pc[tasks[s]] \in {"call", "sleep"}

\* C3: stop_cronjob on an empty registry answers NothingRunning and changes
\* nothing; on a populated registry it succeeds, requests the cancellation of
\* every registered poller that still runs and leaves the registry empty.
C3_Stop ==
  [][/\ (stop_cronjob /\ DOMAIN tasks = {}) =>
          /\ ctl'.result = "NothingRunning"
          /\ UNCHANGED <<tasks, stop_flags, gen, pc, must_cancel, srv>>
     /\ (stop_cronjob /\ DOMAIN tasks # {}) =>
          /\ ctl'.result = "ok"
          /\ DOMAIN tasks' = {}
          /\ \A s \in DOMAIN tasks :
               pc[tasks[s]] \notin Finished => tasks[s] \in must_cancel'
          /\ UNCHANGED <<gen, pc>>]_vars

\* C3 witness: a stop_cronjob was refused after an earlier one had stopped the
\* pollers of the first generation.
C3_Witness ==
  /\ ctl = Result("stop", "NothingRunning")
  /\ gen = 1
  /\ DOMAIN tasks = {}
  /\ \E p \in Pollers : p \in must_cancel

\* C4: the control calls are atomic with respect to each other: at any time
\* each stage has at most one poller that can still run, it is the registered
\* one, and a start_cronjob on an empty registry succeeds and creates exactly
\* one poller per stage (so of two start calls exactly one succeeds).
C4_OnePollerPerStage ==
  /\ [](\A s \in Stages :
          /\ Cardinality({p \in Pollers : p[2] = s /\ Live(p)}) <= 1
          /\ \A p \in Pollers : (p[2] = s /\ Live(p)) => Registered(p))
  /\ [][(start_cronjob /\ DOMAIN tasks = {}) =>
          /\ ctl'.result = "ok"
          /\ DOMAIN tasks' = Stages
          /\ \A s \in Stages :
               {p \in Pollers : p[2] = s /\ pc'[p] # pc[p]} = {tasks'[s]}]_vars

\* C4 witness: start, stop, start: the pollers of the second start run while one
\* of the first is not yet cancelled.
C4_Witness ==
  /\ gen = 2
  /\ \A s \in Stages : s \in DOMAIN tasks /\ tasks[s] = <<2, s>> /\ Live(<<2, s>>)
  /\ \E p \in Pollers : p[1] = 1 /\ p \in must_cancel

\* C5 as stated: a poller is stopped only between iterations or, for Fetch and
\* Analyze, in its sleep: never while its call is in flight, and Filter never
\* in its sleep.
C5_Original ==
  [][\A p \in Pollers :
       (pc[p] # "cancelled" /\ pc'[p] = "cancelled") =>
         \/ pc[p] = "ready"
         \/ pc[p] = "sleep" /\ p[2] \in {"news", "analyze"}]_vars

\* C6 as stated: at most one stage invocation issued by a poller is executing.
C6_OneInvocationPerPoller ==
  \A p \in Pollers : srv[p] <= 1

\* C7: only a stop ends a poller, and a poller that sleeps after a failed
\* iteration starts another iteration unless it is stopped.
C7_PollerSurvivesFailure ==
  /\ [][\A p \in Pollers :
          (pc[p] \in {"ready", "call", "sleep"} /\ pc'[p] \in Finished) =>
            p \in must_cancel]_vars
  /\ \A p \in Pollers :
       (pc[p] = "sleep" /\ Failed(last[p])) ~>
         (pc[p] = "call" \/ p \in must_cancel \/ pc[p] = "cancelled")

\* C7 witness: a poller sleeps after its call timed out.
C7_Witness ==
  \E p \in Pollers :
    pc[p] = "sleep" /\ last[p].kind = "exception" /\ last[p].exc = "timeout"

\* The Filter stage reported a skip and a predicate other than duplication failed.
PolicySkip(obs) ==
  obs.kind = "response" /\ obs.status = 200 /\ obs.skipped /\ obs.criteria_failed

\* C8 as stated: the Filter poller goes on without a sleep exactly after a
\* policy skip for non-news, low relevance or no locale interest, and sleeps
\* 120 s after every other outcome.
C8_FilterRetryIffPolicySkip ==
  \A p \in Pollers :
    (p[2] = "filter" /\ last[p].kind # "none") =>
      /\ slept[p] = 0 <=> PolicySkip(last[p])
      /\ slept[p] # 0 => slept[p] = SleepFilter

\* C9: the Analyze poller sleeps 60 s after a failed call or an unsuccessful
\* rewrite, 180 s after a successful one, and never goes on without a sleep.
C9_AnalyzeSleeps ==
  \A p \in Pollers :
    (p[2] = "analyze" /\ last[p].kind # "none") =>
      /\ slept[p] # 0
      /\ (Failed(last[p]) \/ ~last[p].success) => slept[p] = SleepAnalyzeShort
      /\ (~Failed(last[p]) /\ last[p].success) => slept[p] = SleepAnalyzeLong

\* C9 witness: the Analyze poller sleeps 60 s after a 200 whose rewrite failed.
C9_Witness ==
  \E p \in Pollers :
    /\ p[2] = "analyze" /\ pc[p] = "sleep"
    /\ last[p].status = 200 /\ ~last[p].success /\ slept[p] = SleepAnalyzeShort

\* every row of the table ne with this news_id is used
IsUsed(ne, id) == \A j \in DOMAIN ne : ne[j].news_id = id => ne[j].used

\* The retention predicates an answer of the classifier fails: duplication is
\* true, is_news_content is false, brazil_interest is false, relevance is
\* below medium on the scale low < medium < high < viral.
RelevanceScale == <<"low", "medium", "high", "viral">>
BelowMedium(v) == \E n \in 1..Len(RelevanceScale) : RelevanceScale[n] = v /\ n < 2
Has(d, k, v) == k \in DOMAIN d /\ d[k] = v
FailedReasons(d) ==
  (IF Has(d, "duplication", TRUE) THEN {ReasonDuplication} ELSE {})
    \cup (IF Has(d, "is_news_content", FALSE) THEN {ReasonNotNews} ELSE {})
    \cup (IF Has(d, "brazil_interest", FALSE) THEN {ReasonBrazil} ELSE {})
    \cup (IF "relevance" \in DOMAIN d /\ BelowMedium(d["relevance"])
            THEN {ReasonRelevance(d["relevance"])} ELSE {})
\* invocation k has classified its item, in rec (a value of finv[k]), with an
\* answer that fails a retention predicate
FailsRetention(rec) ==
  /\ rec.resp.status = 200
  /\ FailedReasons(rec.resp.body.filter) # {}

\* C10 as stated: a Filter invocation on an item whose classification fails
\* at least one retention predicate inserts nothing into the table news in any of its steps,
\* reports skipped with the reason of a predicate that failed (insufficient
\* relevance when relevance is low and nothing else fails), and has left the
\* item with used = true when it returns.
C10_SkipOnFailedPredicate ==
  [][\A k \in Invocations :
       (finv'[k] # finv[k] /\ FailsRetention(finv'[k])) =>
         /\ news' = news
         /\ finv'[k].resp.body.skipped
         /\ finv'[k].resp.body.skip_reason \in FailedReasons(finv'[k].resp.body.filter)
         /\ finv'[k].pc = "done" => IsUsed(news_extraction', finv'[k].item)]_vars

\* An answer of the classifier that passes every retention predicate:
\* duplication is not true, is_news_content and brazil_interest are not false,
\* relevance is medium or above on the scale.
AtLeastMedium(v) == \E n \in 1..Len(RelevanceScale) : RelevanceScale[n] = v /\ n >= 2
PassesRetention(d) ==
  /\ ~Has(d, "duplication", TRUE)
  /\ ~Has(d, "is_news_content", FALSE)
  /\ ~Has(d, "brazil_interest", FALSE)
  /\ "relevance" \in DOMAIN d /\ AtLeastMedium(d["relevance"])
\* invocations whose insert the datastore has accepted
Inserted == {k \in Invocations :
               /\ finv[k].pc \in {"mark", "done"}
               /\ finv[k].resp.status = 200
               /\ ~finv[k].resp.body.skipped}
\* row r is the item of invocation k with the classification k got
RowOf(r, k) ==
  /\ r["news_id"] = finv[k].item
  /\ DOMAIN r = {"news_id", "title_en", "text_en"} \cup DOMAIN finv[k].resp.body.filter
  /\ \A key \in DOMAIN finv[k].resp.body.filter : r[key] = finv[k].resp.body.filter[key]

\* C11 as stated: an invocation whose item passes every retention predicate
\* does not skip it but sends the insert, and once the datastore has accepted the insert
\* it marks the item used and reports skipped = false; the rows of the table
\* news are, one for one, the items of the invocations that report
\* skipped = false, each with the classification its invocation got.
C11_RetainedItemInsertedOnce ==
  /\ [][\A k \in Invocations :
          (finv[k].pc = "classify" /\ finv'[k].resp.status = 200
             /\ PassesRetention(finv'[k].resp.body.filter)) =>
            finv'[k].pc = "insert" /\ ~finv'[k].resp.body.skipped]_vars
  /\ [](/\ \E f \in [1..Len(news) -> Inserted] :
             /\ \A k \in Inserted : \E n \in 1..Len(news) : f[n] = k
             /\ \A n, m \in 1..Len(news) : f[n] = f[m] => n = m
             /\ \A n \in 1..Len(news) : RowOf(news[n], f[n])
         /\ \A k \in Inserted :
              finv[k].pc = "done" => IsUsed(news_extraction, finv[k].item))

\* C12 as stated: a row get_news adds to news_extraction has a news_id that no
\* row of the table had (so over an unchanged upstream list whose items are
\* all in the table nothing is added), and an invocation that finds no new
\* entry returns normally and adds nothing.
C12_FetchInsertsOnlyUnknown ==
  [][/\ \A n \in DOMAIN news_extraction' \ DOMAIN news_extraction :
          \A j \in DOMAIN news_extraction :
            news_extraction'[n].news_id # news_extraction[j].news_id
     /\ \A g \in Fetches :
          (ginv[g].pc = "dedup" /\ ginv'[g].pc = "done") =>
            ginv'[g].status = 200 /\ news_extraction' = news_extraction]_vars


\* ------------------------------------------------ Analyze stage: the rewrite
\* POST /analyze, analyze_endpoint.  The strings of the model: a text the
\* language model produced, a text of blanks only, and the three texts
\* rewrite_news substitutes for a tag the answer does not have.
Produced == "Texto reescrito"
Blanks == "  "
PlaceholderTitle == "Título não encontrado"
PlaceholderSubhead == "Subtítulo não encontrado"
PlaceholderContent == "Conteúdo não encontrado"

\* str.strip() on the strings of the model
Strip(s) == IF s = Blanks THEN "" ELSE s

\* `required_keys = ["title", "subhead", "content"]`
required_keys == {"title", "subhead", "content"}

\* The language model's answer to rewrite_news: no text at all, or a text with
\* some of the tags <headline>, <subhead>, <body>, each holding a produced text
\* or blanks.  At most one tag is missing or blank.
FullTags == [t \in {"headline", "subhead", "body"} |-> Produced]
ModelAnswers ==
  {[text |-> FALSE, tags |-> EmptyDict], [text |-> TRUE, tags |-> FullTags]}
    \cup {[text |-> TRUE, tags |-> DropKey(FullTags, t)] : t \in DOMAIN FullTags}
    \cup {[text |-> TRUE, tags |-> [FullTags EXCEPT ![t] = Blanks]] : t \in DOMAIN FullTags}

\* `m.group(1).strip() if m else <placeholder>`
TagOr(tags, t, placeholder) ==
  IF t \in DOMAIN tags THEN Strip(tags[t]) ELSE placeholder

\* inference.rewrite_news(news): the NewsResponse it returns, or the
\* HTTPException it raises: `if not news.file_id` raises AttributeError on a
\* request object that has no file_id attribute, and the model may return no
\* text; the `except Exception` of the function turns both into a 500
rewrite_news(request, answer) ==
  IF "file_id" \notin DOMAIN request \/ ~answer.text
    THEN [raised |-> TRUE, data |-> EmptyDict]
    ELSE [raised |-> FALSE,
          data |-> [title |-> TagOr(answer.tags, "headline", PlaceholderTitle),
                    subhead |-> TagOr(answer.tags, "subhead", PlaceholderSubhead),
                    content |-> TagOr(answer.tags, "body", PlaceholderContent)]]

\* What the rewrite API answers to the POST of rewrite_article_http: a timeout,
\* another error of the session, a status other than 200, a body that is not
\* JSON, or a JSON object.  At most one required key of the object is missing,
\* blank or a placeholder.
FullBody == [k \in required_keys |-> Produced]
PlaceholderOf(k) ==
  CASE k = "title" -> PlaceholderTitle
    [] k = "subhead" -> PlaceholderSubhead
    [] OTHER -> PlaceholderContent
HttpAnswer(kind, status, body) == [kind |-> kind, status |-> status, body |-> body]
HttpAnswers ==
  {HttpAnswer("timeout", 0, EmptyDict), HttpAnswer("error", 0, EmptyDict),
   HttpAnswer("response", 503, EmptyDict), HttpAnswer("not_json", 200, EmptyDict)}
    \cup {HttpAnswer("response", 200, FullBody)}
    \cup {HttpAnswer("response", 200, DropKey(FullBody, k)) : k \in required_keys}
    \cup {HttpAnswer("response", 200, [FullBody EXCEPT ![k] = Blanks]) : k \in required_keys}
    \cup {HttpAnswer("response", 200, [FullBody EXCEPT ![k] = PlaceholderOf(k)]) :
            k \in required_keys}

\* The dicts the two paths return, with the keys the stage reads
Success(data, method) == [success |-> TRUE, data |-> data, method |-> method]
Failure(error, method) == [success |-> FALSE, error |-> error, method |-> method]

\* `all(key in rewritten_data for key in required_keys)`
HttpComplete(data) == \A k \in required_keys : k \in DOMAIN data

\* rewrite_article_http(content)
rewrite_article_http(h) ==
  CASE h.kind = "timeout" -> Failure("Timeout", "http_call")
    [] h.kind = "error" -> Failure("Exception occurred", "http_call")
    [] h.kind = "not_json" -> Failure("JSON inválido", "http_call")
    [] h.status # 200 -> Failure("HTTP status", "http_call")
    [] HttpComplete(h.body) -> Success(h.body, "http_call")
    [] OTHER -> Failure("Resposta incompleta", "http_call")

\* `all(key in rewritten_data and rewritten_data[key].strip() for key in required_keys)`
DirectComplete(data) == \A k \in required_keys : k \in DOMAIN data /\ Strip(data[k]) # ""

\* What one call of a path leaves behind: the result, what the direct call
\* gave ("unavailable", "raised" or "returned" with the NewsResponse) and the
\* answers of the HTTP calls made, in order.
Rewritten(result, direct, http) == [result |-> result, direct |-> direct, http |-> http]
DirectGave(kind, data) == [kind |-> kind, data |-> data]

\* rewrite_article_direct(content); h is the answer an HTTP call would get.
\* The request object it builds is its own `class NewsRequest`, whose only
\* attribute is content.
rewrite_article_direct(loaded, answer, h) ==
  IF ~loaded
    THEN Rewritten(rewrite_article_http(h), DirectGave("unavailable", EmptyDict), <<h>>)
  ELSE LET news_request == [content |-> "Text"]
           r == rewrite_news(news_request, answer) IN
    IF r.raised
      THEN Rewritten(rewrite_article_http(h), DirectGave("raised", EmptyDict), <<h>>)
    ELSE IF DirectComplete(r.data)
      THEN Rewritten(Success(r.data, "direct_call"), DirectGave("returned", r.data), <<>>)
    ELSE Rewritten(Failure("Resposta incompleta", "direct_call"),
                   DirectGave("returned", r.data), <<>>)

RetryOverHttpMut(result) == ~result.success
\* `not result or (not result.get("success") and result.get("method") == "direct_call")`
RetryOverHttp(result) == ~result.success /\ result.method = "direct_call"

\* rewrite_article(content); h1 answers the HTTP call rewrite_article_direct
\* makes, h2 the one rewrite_article makes itself
rewrite_article(loaded, answer, h1, h2) ==
  LET d == rewrite_article_direct(loaded, answer, h1) IN
    IF RetryOverHttp(d.result)
      THEN Rewritten(rewrite_article_http(h2), d.direct, Append(d.http, h2))
      ELSE d


\* --------------------------------------------- Analyze stage: the datastore
\* A row of the table news with the columns analyze_endpoint reads.  A column
\* that is null is a key the row does not have; title_pt, text_pt and
\* subhead_pt are null until update_news_rewrite sets them.
NewsRow(brazil, title_en, death, entity, image) ==
  [brazil_interest |-> brazil, title_en |-> title_en, text_en |-> "Text",
   death_related |-> death, entity_name |-> entity, image |-> image]
NewsRows ==
  {NewsRow(TRUE, "Title", d.death, d.entity, d.image) :
     d \in {[death |-> FALSE, entity |-> "", image |-> ""],
            [death |-> FALSE, entity |-> "", image |-> "https://img/news.jpg"],
            [death |-> TRUE, entity |-> "Ana Silva", image |-> ""],
            [death |-> TRUE, entity |-> "Ana Silva", image |-> "https://img/news.jpg"]}}
    \cup {NewsRow(FALSE, "Title", FALSE, "", ""), NewsRow(TRUE, Blanks, FALSE, "", ""),
          [title_pt |-> Produced, text_pt |-> Produced, subhead_pt |-> Produced]
            @@ NewsRow(TRUE, "Title", FALSE, "", "")}
NewsTables == UNION {[1..n -> NewsRows] : n \in 0..MaxRows}

\* `brazil_interest=eq.true`, `title_pt=is.null`
Eligible(table) ==
  {n \in DOMAIN table :
     Get(table[n], "brazil_interest", FALSE) /\ "title_pt" \notin DOMAIN table[n]}

update_news_rewriteMut(table, id, data) ==
  [n \in DOMAIN table |->
     [title_pt |-> Get(data, "title", ""), text_pt |-> Get(data, "content", ""),
      subhead_pt |-> Get(data, "subhead", "")]
       @@ DropKey(DropKey(DropKey(table[n], "title_pt"), "text_pt"), "subhead_pt")]
\* update_news_rewrite: PATCH `id=eq.{news_id}` with the three localized fields
update_news_rewrite(table, id, data) ==
  [table EXCEPT ![id] =
     [title_pt |-> Get(data, "title", ""), text_pt |-> Get(data, "content", ""),
      subhead_pt |-> Get(data, "subhead", "")]
       @@ DropKey(DropKey(DropKey(table[id], "title_pt"), "text_pt"), "subhead_pt")]

\* ------------------------------------------------ Analyze stage: the poster
\* None where a year is expected; like None it is falsy
NoYear == 0
\* `if death_year is None: death_year = 2025`
DefaultDeathYear == 2025
\* re.search(pattern, description): the years of the two groups, NoYear for
\* a group that did not take part in the match
YearsMatched(description) ==
  CASE description = "Brazilian actress (born 1950)" ->
         [found |-> TRUE, birth |-> 1950, death |-> NoYear]
    [] description = "Brazilian actress (1950-2020)" ->
         [found |-> TRUE, birth |-> 1950, death |-> 2020]
    [] OTHER -> [found |-> FALSE, birth |-> NoYear, death |-> NoYear]

extract_birth_death_yearsMut(description) ==
  <<YearsMatched(description).birth, YearsMatched(description).death>>
\* extract_birth_death_years(description) -> (birth_year, death_year)
extract_birth_death_years(description) ==
  LET m == YearsMatched(description) IN
    IF m.found
      THEN <<m.birth, IF m.death = NoYear THEN DefaultDeathYear ELSE m.death>>
      ELSE <<NoYear, NoYear>>

\* What the encyclopedia answers to the search of fetch_wikipedia_info: an
\* error of the session, a status other than 200, or a list of pages of
\* which the first is read.  The thumbnail of a page is a dict with its url,
\* or the empty dict for a page that has none (null, like {}, is falsy).
WikiAnswer(kind, status, pages) == [kind |-> kind, status |-> status, pages |-> pages]
WikiAnswers ==
  LET Page(title, description, thumbnail) ==
        [title |-> title, description |-> description, thumbnail |-> thumbnail]
      Thumb == [url |-> "//upload.wikimedia.org/wikipedia/commons/thumb/a/ab/Ana.jpg/60px-Ana.jpg"]
  IN {WikiAnswer("error", 0, <<>>), WikiAnswer("response", 404, <<>>),
      WikiAnswer("response", 200, <<>>)}
       \cup {WikiAnswer("response", 200, <<Page("Ana Silva", d, Thumb)>>) :
               d \in {"", "Brazilian actress", "Brazilian actress (born 1950)",
                      "Brazilian actress (1950-2020)"}}
       \cup {WikiAnswer("response", 200,
                        <<Page(t.title, "Brazilian actress (1950-2020)", t.thumbnail)>>) :
               t \in {[title |-> "Ana Silva", thumbnail |-> EmptyDict],
                      [title |-> "Ana Silva", thumbnail |-> [url |-> "https://img/ana.jpg"]],
                      [title |-> "Ana Silva", thumbnail |-> [url |-> JsonNull]],
                      [title |-> JsonNull, thumbnail |-> Thumb]}}

\* fix_wikipedia_image_url(url): the url of the original file for a url of
\* upload.wikimedia.org (scheme added, /thumb/ removed, the last two segments
\* replaced by the file name without its `NNpx-`), any other url as it is
fix_wikipedia_image_url(url) ==
  CASE url = "//upload.wikimedia.org/wikipedia/commons/thumb/a/ab/Ana.jpg/60px-Ana.jpg" ->
         "https://upload.wikimedia.org/wikipedia/commons/a/ab/Ana.jpg"
    [] url = "//upload.wikimedia.org/wikipedia/commons/a/ab/Ana.jpg" ->
         "https://upload.wikimedia.org/wikipedia/commons/a/Ana.jpg"
    [] OTHER -> url

\* fetch_wikipedia_info(entity_name); None is the empty dict.  A thumbnail
\* whose url is null gives image_url None, which is falsy and stays.
fetch_wikipedia_info(w) ==
  IF w.kind = "error" \/ w.status # 200 \/ w.pages = <<>>
    THEN EmptyDict
    ELSE LET page == w.pages[1]
             years == extract_birth_death_years(page.description)
             image_url == IF page.thumbnail # EmptyDict
                            THEN Get(page.thumbnail, "url", "") ELSE ""
         IN [title |-> page.title, birth_year |-> years[1], death_year |-> years[2],
             image_url |-> IF image_url \notin {"", JsonNull}
                             THEN fix_wikipedia_image_url(image_url) ELSE image_url]

\* generate_poster_url and generate_news_poster_url: the template and its parameters
MemorialPoster(name, birth, death, image_url) ==
  [template |-> "memoriam", image_url |-> image_url, name |-> name,
   birth |-> birth, death |-> death]
NewsPoster(image_url, headline) ==
  [template |-> "news", image_url |-> image_url, headline |-> headline]

\* `news_data.get("death_related") is True and news_data.get("entity_name")`
LooksUp(row) == Get(row, "death_related", FALSE) /\ Get(row, "entity_name", "") # ""

PosterFailedMut == [poster |-> NewsPoster("", "")]
\* `except Exception as e: ... return {}`
PosterFailed == EmptyDict

\* generate_poster_analysis(news_data, rewritten_result); generate_poster_url
\* calls quote(image_url) and quote(name), which raise on None: on a thumbnail
\* url or a title that is null, which the `except` of the function catches
generate_poster_analysis(row, result, w) ==
  LET image_url == Get(row, "image", "")
      info == IF LooksUp(row) THEN fetch_wikipedia_info(w) ELSE EmptyDict
      found == IF info # EmptyDict THEN [wikipedia_info |-> info] ELSE EmptyDict
      memorial == info # EmptyDict /\ info.death_year # NoYear /\ info.birth_year # NoYear
      headline_to_use ==
        IF result.success /\ Get(Get(result, "data", EmptyDict), "title", "") # ""
          THEN result.data.title
          ELSE Get(row, "title_en", "")
  IN IF memorial
       THEN IF info.image_url = JsonNull \/ info.title = JsonNull
              THEN PosterFailed
              ELSE found @@ [poster |-> MemorialPoster(info.title, info.birth_year,
                                                       info.death_year, info.image_url)]
     ELSE IF image_url # ""
       THEN found @@ [poster |-> NewsPoster(image_url, headline_to_use)]
     ELSE found

\* ------------------------------------------------ Analyze stage: the handler
\* POST /analyze is a public route: an invocation may arrive while another is
\* suspended at one of its awaits.  The invocations of a run are numbered in
\* the order of their arrival.  A datastore request is applied and answered,
\* refused with an error status, or raises in the session, before the
\* datastore applied it or with the answer lost after it did.
AnalyzeBody(id, row, result, poster_analysis) ==
  [news_id |-> id, rewrite_result |-> result,
   death_related |-> Get(row, "death_related", FALSE),
   entity_name |-> Get(row, "entity_name", ""), image |-> Get(row, "image", "")]
    @@ poster_analysis

\* str(e) of an exception of the session: aiohttp.ClientConnectionError and
\* aiohttp.ServerDisconnectedError with their text, asyncio.TimeoutError with none
RaisedText(answer) ==
  CASE answer = "raised" -> "Cannot connect to host"
    [] answer = "raised_applied" -> "Server disconnected"
    [] OTHER -> ""
\* str(e) of the HTTPException of a refused GET: its status code and its detail
FetchFailedText == "500: Erro ao buscar notícia"
\* `except Exception as e: raise HTTPException(status_code=500, detail=f"Erro Supabase: {str(e)}")`
SupabaseError(text) == Response(500, [detail |-> "Erro Supabase: " \o text])
\* The 500 of a GET that was not answered 200
FetchFailed(get) ==
  SupabaseError(IF get = "refused" THEN FetchFailedText ELSE RaisedText(get))

AfterFetchMut(table, get) ==
  IF get # "ok"
    THEN AnalyzeAt("done", 0, NoRewrite, FetchFailed(get))
  ELSE IF Eligible(table) = {}
    THEN AnalyzeAt("done", 0, NoRewrite,
                   SupabaseError("404: Nenhuma notícia com brazil_interest=true"
                                   \o " e title_pt vazio disponível"))
  ELSE LET n == CHOOSE m \in Eligible(table) : \A o \in Eligible(table) : m >= o IN
    IF Strip(Get(table[n], "title_en", "")) = "" \/ Strip(Get(table[n], "text_en", "")) = ""
      THEN AnalyzeAt("done", n, NoRewrite,
                     Response(400, [detail |-> "Title_en and text_en must not be empty."]))
      ELSE AnalyzeAt("rewrite", n, NoRewrite, NoResponse)

\* fetch_brazil_interest_news and the test of title_en and text_en.  The
\* HTTPException of a refused GET, the one of an empty list and an exception
\* of the session are all raised inside the `try` and leave it through its
\* `except Exception`.
AfterFetch(table, get) ==
  IF get # "ok"
    THEN AnalyzeAt("done", 0, NoRewrite, FetchFailed(get))
  ELSE IF Eligible(table) = {}
    THEN AnalyzeAt("done", 0, NoRewrite,
                   SupabaseError("404: Nenhuma notícia com brazil_interest=true"
                                   \o " e title_pt vazio disponível"))
  ELSE LET n == CHOOSE m \in Eligible(table) : \A o \in Eligible(table) : m <= o IN
    IF Strip(Get(table[n], "title_en", "")) = "" \/ Strip(Get(table[n], "text_en", "")) = ""
      THEN AnalyzeAt("done", n, NoRewrite,
                     Response(400, [detail |-> "Title_en and text_en must not be empty."]))
      ELSE AnalyzeAt("rewrite", n, NoRewrite, NoResponse)

\* The next request arrives and the GET of fetch_brazil_interest_news ends,
\* wherever the earlier invocations are.
AnalyzeSelect ==
  /\ analyses < MaxAnalyses
  /\ analyses' = analyses + 1
  /\ \E get \in {"ok", "refused", "raised", "timeout"} :
       ainv' = [ainv EXCEPT ![analyses + 1] = AfterFetch(news, get)]
  /\ UNCHANGED <<inference_module, news_extraction, news, finv, fetchVars, schedVars>>

\* What rewrite_article can return and leave behind, over every answer of
\* the model and of the rewrite API
RewriteOutcomes ==
  [loaded \in BOOLEAN |->
     {rewrite_article(loaded, answer, h1, h2) :
        answer \in ModelAnswers, h1 \in HttpAnswers, h2 \in HttpAnswers}]

\* The rewrite; the update follows
\* `if rewritten_result.get("success") and rewritten_result.get("data")`.
AnalyzeRewrite(a) ==
  /\ ainv[a].pc = "rewrite"
  /\ \E r \in RewriteOutcomes[inference_module] :
       ainv' = [ainv EXCEPT ![a] =
                  AnalyzeAt(IF r.result.success /\ Get(r.result, "data", EmptyDict) # EmptyDict
                              THEN "update" ELSE "poster",
                            ainv[a].id, r, NoResponse)]
  /\ UNCHANGED <<inference_module, analyses, news_extraction, news, finv, fetchVars, schedVars>>

\* update_news_rewrite: the row is written when the datastore applied the
\* PATCH, and the handler goes on to the poster when the answer arrived with
\* 200, 201 or 204.  Otherwise what was raised inside the `try`, the
\* HTTPException of a refused PATCH (here refused with 503) or the exception
\* of the session (raised before the PATCH was applied, or after it with the
\* answer lost), leaves through
\* `except Exception as e: raise HTTPException(status_code=500, detail=f"Erro ao atualizar: {str(e)}")`
AnalyzeUpdate(a) ==
  /\ ainv[a].pc = "update"
  /\ \E patch \in {"ok", "refused", "raised", "timeout", "raised_applied",
                    "timeout_applied"} :
       LET text == IF patch = "refused"
                     THEN "500: Erro ao atualizar notícia - Status: 503"
                     ELSE RaisedText(patch)
       IN /\ news' = IF patch \in {"ok", "raised_applied", "timeout_applied"}
                       THEN update_news_rewrite(news, ainv[a].id, ainv[a].rewrite.result.data)
                       ELSE news
          /\ ainv' = [ainv EXCEPT ![a] =
                        IF patch = "ok" THEN [ainv[a] EXCEPT !.pc = "poster"]
                        ELSE [ainv[a] EXCEPT
                                !.pc = "done",
                                !.resp = Response(500, [detail |-> "Erro ao atualizar: " \o text])]]
  /\ UNCHANGED <<inference_module, analyses, news_extraction, finv, fetchVars, schedVars>>

\* The columns generate_poster_analysis and the result read are not the ones
\* update_news_rewrite sets, so the row of the table stands for news_data.
AnalyzePoster(a) ==
  /\ ainv[a].pc = "poster"
  /\ \E w \in WikiAnswers :
       LET row == news[ainv[a].id]
           poster_analysis == generate_poster_analysis(row, ainv[a].rewrite.result, w)
       IN ainv' = [ainv EXCEPT ![a] =
                     [ainv[a] EXCEPT !.pc = "done",
                                     !.wiki = IF LooksUp(row) THEN w ELSE NoWiki,
                                     !.resp = Response(200, AnalyzeBody(ainv[a].id, row,
                                                ainv[a].rewrite.result, poster_analysis))]]
  /\ UNCHANGED <<inference_module, analyses, news_extraction, news, finv, fetchVars, schedVars>>

AnalyzeSpecInit ==
  /\ SchedInit /\ watch = <<1, "analyze">>
  /\ news_extraction = [i \in Items |-> WorkItem(i, FALSE, "Title")]
  /\ finv = [k \in Invocations |-> Idle]
  /\ FetchQuiet
  /\ news \in NewsTables
  /\ inference_module \in BOOLEAN
  /\ ainv = [a \in AnalyzeInvocations |-> AnalyzeIdle]
  /\ analyses = 0

AnalyzeNext ==
  \/ AnalyzeSelect
  \/ \E a \in AnalyzeInvocations : AnalyzeRewrite(a)
  \/ \E a \in AnalyzeInvocations : AnalyzeUpdate(a)
  \/ \E a \in AnalyzeInvocations : AnalyzePoster(a)

AnalyzeSpec == AnalyzeSpecInit /\ [][AnalyzeNext]_vars

\* ------------------------------------------- Fetch and Filter on one table
\* get_news and filter_endpoint served by the same app on one datastore, from
\* an empty one: get_news fills news_extraction, filter_endpoint reads and
\* marks it and fills news.  Every handler is suspended at each of its
\* requests and the app serves requests concurrently, so a request of either
\* kind arrives at any time and the steps of the invocations under way
\* interleave in any order; MaxFetches and MaxInvocations invocations are
\* followed.  Of the answers of the services outside the datastore one of a
\* kind is followed: an article whose primary extraction is viable or yields
\* nothing, and a classification with all four keys that is retained or
\* skipped for its locale interest alone, or the classifier failing.
IntakeAnswers ==
  \A k \in Invocations :
    /\ finv[k].extraction.method \in {"none", "primary"}
    /\ finv[k].extraction.len \in {0, MinViableLength + 1}
    /\ (finv[k].resp.status = 200 /\ finv[k].resp.body # EmptyDict) =>
         LET d == finv[k].resp.body.filter
         IN /\ DOMAIN d = {"duplication", "is_news_content", "brazil_interest", "relevance"}
            /\ ~d.duplication /\ d.is_news_content /\ d.relevance = "high"

IntakeInit ==
  /\ SchedInit /\ watch = <<1, "filter">>
  /\ news_extraction = <<>>
  /\ news = <<>>
  /\ upstream \in {u \in UpstreamLists : Len(u) = 1}
  /\ finv = [k \in Invocations |-> Idle]
  /\ ginv = [g \in Fetches |-> FetchIdle]
  /\ AnalyzeQuiet

IntakeNext ==
  \/ \E g \in Fetches : FetchUpstream(g)
  \/ \E g \in Fetches : FetchDedup(g)
  \/ \E g \in Fetches : FetchInsert(g)
  \/ \E k \in Invocations : FilterSelect(k)
  \/ \E k \in Invocations : FilterExtract(k) /\ IntakeAnswers'
  \/ \E k \in Invocations : FilterClassify(k) /\ IntakeAnswers'
  \/ \E k \in Invocations : FilterInsert(k)
  \/ \E k \in Invocations : FilterMark(k)

IntakeSpec == IntakeInit /\ [][IntakeNext]_vars


\* A rewrite with a required field missing or blank after trimming
Incomplete(data) ==
  \E k \in required_keys : k \notin DOMAIN data \/ Strip(data[k]) = ""
\* The direct path is unavailable, raised, or returned an incomplete result
DirectFellShort(direct) ==
  \/ direct.kind \in {"unavailable", "raised"}
  \/ direct.kind = "returned" /\ Incomplete(direct.data)
\* The HTTP path answered 200 with the three required fields, none blank
HttpSucceeds(h) == h.kind = "response" /\ h.status = 200 /\ ~Incomplete(h.body)
\* rewrite_article has returned in invocation a
Rewrote(a) == ainv[a].rewrite.result.method # "none"

\* C13: once rewrite_article has returned in an invocation, the direct path was called unless
\* inference.py is not loaded; one HTTP call was made if the direct path was
\* unavailable, raised or returned a result with a required field missing or
\* blank after trimming, and none otherwise; and when the direct path raised
\* and the HTTP call succeeded, the rewrite result is the success of the HTTP
\* path with the fields the HTTP call returned.
C13_HttpFallbackOnce ==
  \A a \in AnalyzeInvocations :
    Rewrote(a) =>
      /\ (ainv[a].rewrite.direct.kind = "unavailable") = ~inference_module
      /\ Len(ainv[a].rewrite.http) = IF DirectFellShort(ainv[a].rewrite.direct) THEN 1 ELSE 0
      /\ (ainv[a].rewrite.direct.kind = "raised" /\ HttpSucceeds(ainv[a].rewrite.http[1])) =>
           ainv[a].rewrite.result = Success(ainv[a].rewrite.http[1].body, "http_call")

\* C13 witness: the direct path raised, the one HTTP call succeeded, and the
\* invocation goes on to update the row with the HTTP result.
C13_Witness ==
  \E a \in AnalyzeInvocations :
    /\ ainv[a].pc = "update"
    /\ ainv[a].rewrite.direct.kind = "raised"
    /\ Len(ainv[a].rewrite.http) = 1 /\ HttpSucceeds(ainv[a].rewrite.http[1])
    /\ ainv[a].rewrite.result = Success(FullBody, "http_call")


\* The field was produced by the rewrite and is not blank after trimming
ProducedField(data, k) ==
  k \in DOMAIN data /\ Strip(data[k]) # "" /\ data[k] # PlaceholderOf(k)
\* The localized fields a row holds
Localized(row) == [k \in DOMAIN row \cap {"title_pt", "text_pt", "subhead_pt"} |-> row[k]]

\* C14 as stated: a rewrite result that reports success has title, subhead and
\* content all produced and non-blank after trimming, whichever path gave it,
\* and no row of the table news holds a localized field that is blank or a
\* placeholder.
C14_SuccessOnlyIfAllProduced ==
  /\ \A a \in AnalyzeInvocations :
       (Rewrote(a) /\ ainv[a].rewrite.result.success) =>
         \A k \in required_keys : ProducedField(ainv[a].rewrite.result.data, k)
  /\ \A n \in DOMAIN news : \A c \in DOMAIN Localized(news[n]) :
       Strip(news[n][c]) # ""
         /\ news[n][c] \notin {PlaceholderTitle, PlaceholderSubhead, PlaceholderContent}


\* The localized fields update_news_rewrite sends for a rewrite
LocalizedOf(data) ==
  [title_pt |-> data.title, text_pt |-> data.content, subhead_pt |-> data.subhead]
\* Everything of a row but its localized fields
Unlocalized(row) == [k \in DOMAIN row \ {"title_pt", "text_pt", "subhead_pt"} |-> row[k]]

\* The step writes the rewrite of invocation a to the row it selected and to
\* nothing else: the localized fields of that row become the title, content
\* and subhead of the result and its other columns stay
Written(a) ==
  /\ DOMAIN news' = DOMAIN news
  /\ \A n \in DOMAIN news : n # ainv[a].id => news'[n] = news[n]
  /\ Localized(news'[ainv[a].id]) = LocalizedOf(ainv[a].rewrite.result.data)
  /\ Unlocalized(news'[ainv[a].id]) = Unlocalized(news[ainv[a].id])
\* The update step of invocation a ends in this step
UpdateEnds(a) == ainv[a].pc = "update" /\ ainv'[a].pc # "update"

\* C15 as stated: an invocation whose rewrite succeeded writes the result to
\* the row it selected and to nothing else, in the update step it goes to
\* before anything else; one whose rewrite did not succeed leaves the table
\* as it was; and the table changes in no other step.
C15_Original ==
  [][/\ news' # news => \E a \in AnalyzeInvocations : UpdateEnds(a)
     /\ \A a \in AnalyzeInvocations :
          /\ (ainv[a].pc = "rewrite" /\ ainv'[a].pc # "rewrite") =>
               /\ ainv'[a].pc = IF ainv'[a].rewrite.result.success
                                  THEN "update" ELSE "poster"
               /\ news' = news
          /\ UpdateEnds(a) => ainv[a].rewrite.result.success /\ Written(a)]_vars

\* C15 amended: the table news changes only in the update step of an invocation, whose
\* rewrite result is then a success, and only by that result being written to
\* the row the invocation selected; an invocation whose rewrite succeeded goes
\* to that update before anything else, and one whose rewrite did not succeed
\* goes on to the poster with the table as it was; the update step either
\* writes the row and goes on to the poster, or ends the invocation with 500,
\* the row written or the table unchanged; and the row of an invocation
\* answered 200 after a successful rewrite has its localized fields.
C15_WritesExactlyOnSuccess ==
  /\ [][/\ news' # news => \E a \in AnalyzeInvocations : UpdateEnds(a)
        /\ \A a \in AnalyzeInvocations :
             /\ (ainv[a].pc = "rewrite" /\ ainv'[a].pc # "rewrite") =>
                  /\ ainv'[a].pc = IF ainv'[a].rewrite.result.success
                                     THEN "update" ELSE "poster"
                  /\ news' = news
             /\ UpdateEnds(a) =>
                  /\ ainv[a].rewrite.result.success
                  /\ \/ ainv'[a].pc = "poster" /\ Written(a)
                     \/ /\ ainv'[a].pc = "done" /\ ainv'[a].resp.status = 500
                        /\ news' = news \/ Written(a)]_vars
  /\ [](\A a \in AnalyzeInvocations :
          (ainv[a].pc = "done" /\ ainv[a].resp.status = 200
             /\ ainv[a].rewrite.result.success) =>
            DOMAIN Localized(news[ainv[a].id]) = {"title_pt", "text_pt", "subhead_pt"})

\* C15 witness: of two rows the older one was selected, its rewrite succeeded
\* and its localized fields are written, while the other row has none.
C15_Witness ==
  \E a \in AnalyzeInvocations :
    /\ ainv[a].pc = "done" /\ ainv[a].resp.status = 200
    /\ Len(news) = 2 /\ ainv[a].id = 1
    /\ ainv[a].rewrite.result.success
    /\ Localized(news[1]) = LocalizedOf(ainv[a].rewrite.result.data)
    /\ Localized(news[2]) = EmptyDict


\* Invocation a was answered 200 for a death-related row with an entity
EnrichedDeath(a) ==
  ainv[a].pc = "done" /\ ainv[a].resp.status = 200 /\ LooksUp(news[ainv[a].id])
\* The years the description of the page the encyclopedia returned gives
LookupYears(w) ==
  IF w.kind = "response" /\ w.status = 200 /\ w.pages # <<>>
    THEN YearsMatched(w.pages[1].description)
    ELSE [found |-> FALSE, birth |-> NoYear, death |-> NoYear]
HasPoster(body, template) ==
  "poster" \in DOMAIN body /\ body.poster.template = template

\* C16 as stated: for a death-related row with an entity, the response has a
\* memorial poster only if the lookup gave a birth year and a death year; when
\* it gave a birth year and no death year, the response has no poster field if
\* the row has no image, and the news poster if it has one.
C16_MemorialNeedsBothYears ==
  \A a \in AnalyzeInvocations :
    EnrichedDeath(a) =>
      LET years == LookupYears(ainv[a].wiki)
          body == ainv[a].resp.body
      IN /\ HasPoster(body, "memoriam") => years.birth # NoYear /\ years.death # NoYear
         /\ (years.birth # NoYear /\ years.death = NoYear) =>
              IF Get(news[ainv[a].id], "image", "") = ""
                THEN "poster" \notin DOMAIN body
                ELSE HasPoster(body, "news")


\* The encyclopedia lookup failed: the session raised or the status is not 200
LookupFailed(w) == w.kind = "error" \/ (w.kind = "response" /\ w.status # 200)
\* The poster generation failed: the memorial poster was to be built for a
\* page whose title or whose thumbnail url is null
GenerationFailed(w) ==
  /\ w.kind = "response" /\ w.status = 200 /\ w.pages # <<>>
  /\ YearsMatched(w.pages[1].description).found
  /\ \/ w.pages[1].title = JsonNull
     \/ Get(w.pages[1].thumbnail, "url", "") = JsonNull
\* The poster step of invocation a ends in this step
PosterEnds(a) == ainv[a].pc = "poster" /\ ainv'[a].pc # "poster"
\* The step answers 200 with everything but the enrichment as it would be
\* without enrichment, and leaves the rewrite result and the datastore alone
SameButEnrichment(a) ==
  /\ ainv'[a].pc = "done" /\ ainv'[a].resp.status = 200
  /\ news' = news /\ news_extraction' = news_extraction
  /\ ainv'[a].rewrite = ainv[a].rewrite
  /\ DropKey(DropKey(ainv'[a].resp.body, "poster"), "wikipedia_info") =
       AnalyzeBody(ainv[a].id, news[ainv[a].id], ainv[a].rewrite.result, EmptyDict)

\* C17 as stated: the poster step always answers 200 with the rewrite result
\* and the datastore untouched, and after a failure of the lookup or of the
\* poster generation the response has no poster field.
C17_Original ==
  [][\A a \in AnalyzeInvocations :
       PosterEnds(a) =>
         /\ SameButEnrichment(a)
         /\ (LookupFailed(ainv'[a].wiki) \/ GenerationFailed(ainv'[a].wiki)) =>
              "poster" \notin DOMAIN ainv'[a].resp.body]_vars

\* C17 amended: the poster step always answers 200 with the rewrite result
\* and the datastore untouched; after a failure of the lookup the response has
\* no memorial poster and no wikipedia_info, and has the news poster exactly
\* if the row has an image; after a failure of the poster generation it has
\* neither a poster field nor wikipedia_info.
C17_EnrichmentFailureSwallowed ==
  [][\A a \in AnalyzeInvocations :
       PosterEnds(a) =>
         /\ SameButEnrichment(a)
         /\ LookupFailed(ainv'[a].wiki) =>
              /\ "wikipedia_info" \notin DOMAIN ainv'[a].resp.body
              /\ IF Get(news[ainv[a].id], "image", "") # ""
                   THEN HasPoster(ainv'[a].resp.body, "news")
                   ELSE "poster" \notin DOMAIN ainv'[a].resp.body
         /\ GenerationFailed(ainv'[a].wiki) =>
              /\ "poster" \notin DOMAIN ainv'[a].resp.body
              /\ "wikipedia_info" \notin DOMAIN ainv'[a].resp.body]_vars

\* C17 witness: the rewrite succeeded and was written, the poster generation
\* then failed, and the invocation is answered 200 with that rewrite result
\* and no poster field.
C17_Witness ==
  \E a \in AnalyzeInvocations :
    /\ ainv[a].pc = "done" /\ ainv[a].resp.status = 200
    /\ GenerationFailed(ainv[a].wiki)
    /\ ainv[a].rewrite.result.success
    /\ ainv[a].resp.body.rewrite_result = ainv[a].rewrite.result
    /\ Localized(news[ainv[a].id]) = LocalizedOf(ainv[a].rewrite.result.data)
    /\ "poster" \notin DOMAIN ainv[a].resp.body


\* The answers of an invocation whose GET was not answered 200
FetchFailures == {FetchFailed(get) : get \in {"refused", "raised", "timeout"}}

\* C18 as stated: an invocation of Filter or Analyze that finds no eligible
\* item writes nothing, and its answer is either the one of a failed datastore
\* request or a not-found answer whose status is not a server error (5xx).
C18_NoWorkIsNotAFault ==
  [][/\ \A k \in Invocations :
          (finv[k].pc = "idle" /\ finv'[k].pc # "idle" /\ Unused(news_extraction) = {}) =>
            /\ finv'[k].pc = "done" /\ finv'[k].resp.status \in {404, 500}
            /\ news' = news /\ news_extraction' = news_extraction
     /\ (analyses' # analyses /\ Eligible(news) = {}) =>
          /\ ainv'[analyses'].pc = "done"
          /\ news' = news /\ news_extraction' = news_extraction
          /\ \/ ainv'[analyses'].resp \in FetchFailures
             \/ ainv'[analyses'].resp.status < 500]_vars


\* The extraction of invocation k ended with no text from either method
ExtractionFailed(k) ==
  finv[k].extraction.primary.tried /\ finv[k].extraction.method = "none"

\* C19 as stated: extract_article_text tries the primary method, and tries the
\* generic method only if the primary raised or yielded a text shorter than
\* the minimum viable length; with a text from either method the invocation
\* goes on to the classifier, and with none it is answered 400 after marking
\* the item, without a call of the classifier and without a row added to the
\* table news.
C19_GenericOnlyAfterPrimaryFails ==
  [][\A k \in Invocations :
       /\ (finv[k].pc = "extract" /\ finv'[k].pc # "extract") =>
            /\ finv'[k].extraction.primary.tried
            /\ finv'[k].extraction.generic.tried =>
                 \/ finv'[k].extraction.primary.raised
                 \/ finv'[k].extraction.primary.len < MinViableLength
            /\ finv'[k].pc = IF finv'[k].extraction.method = "none"
                               THEN "mark" ELSE "classify"
            /\ news' = news
       /\ (ExtractionFailed(k) /\ finv'[k] # finv[k]) =>
            /\ finv[k].pc = "mark" /\ finv'[k].pc = "done"
            /\ finv'[k].resp.status = 400
            /\ news' = news]_vars


\* C20: in every state the registry `tasks` is empty or holds exactly the
\* three stages; it is empty before the first start; a successful
\* start_cronjob finds it empty and leaves it with the three stages; a
\* successful stop_cronjob leaves it empty; a start_cronjob or stop_cronjob
\* that fails, and every step of a poller, leaves it as it was.
C20_RegistryEmptyOrFull ==
  /\ []((DOMAIN tasks = {} \/ DOMAIN tasks = Stages) /\ (gen = 0 => DOMAIN tasks = {}))
  /\ [][/\ gen' # gen => DOMAIN tasks = {} /\ DOMAIN tasks' = Stages
        /\ (gen' = gen /\ tasks' # tasks) =>
             DOMAIN tasks' = {} /\ ctl' = Result("stop", "ok")
        /\ (ctl' # ctl /\ ctl' = Result("stop", "ok")) => DOMAIN tasks' = {}
        /\ (ctl' # ctl /\ ctl'.result \in {"AlreadyRunning", "NothingRunning"}) =>
             tasks' = tasks]_vars

\* C20 witness: the registry was populated, emptied by a stop and populated
\* again, and a further start_cronjob has failed and left the three stages.
C20_Witness ==
  /\ gen = 2 /\ DOMAIN tasks = Stages
  /\ ctl = Result("start", "AlreadyRunning")


\* C21 as stated: no step removes a row of news_extraction or changes its
\* news_id, no step sets the used flag of a row back to false, and the item a
\* Filter invocation selects is not one that was marked used: no row of the
\* table with its news_id is used.
C21_ItemsKeptUsedMonotone ==
  [][/\ Len(news_extraction') >= Len(news_extraction)
     /\ \A j \in DOMAIN news_extraction :
          /\ news_extraction'[j].news_id = news_extraction[j].news_id
          /\ news_extraction[j].used => news_extraction'[j].used
     /\ \A k \in Invocations :
          (finv[k].pc = "idle" /\ finv'[k].item # 0) =>
            \A j \in DOMAIN news_extraction :
              news_extraction[j].news_id = finv'[k].item => ~news_extraction[j].used]_vars


\* C22 as stated: a method's text is accepted if and only if its trimmed
\* length is at least the minimum viable length: the primary's text is
\* returned exactly when the primary did not raise and yielded at least 100
\* characters, and otherwise the generic's text is returned exactly when its
\* GET was answered 200 with a text of at least 100 characters.
C22_AcceptedIffAtLeastMinimum ==
  [][\A k \in Invocations :
       (finv[k].pc = "extract" /\ finv'[k].pc # "extract") =>
         LET e == finv'[k].extraction
             Accepted(t) == ~t.raised /\ t.len >= MinViableLength
         IN  /\ (e.method = "primary") <=> Accepted(e.primary)
             /\ e.generic.tried =>
                  ((e.method = "generic") <=>
                     (e.generic.status = 200 /\ Accepted(e.generic)))]_vars


\* C23 as stated: no item is inserted into the table news more than once: no
\* two rows of news carry the same news_id, and no two invocations that
\* selected the same item have both added its row.
C23_NoItemInsertedTwice ==
  /\ \A n, m \in 1..Len(news) : news[n].news_id = news[m].news_id => n = m
  /\ \A k, l \in Inserted : finv[k].item = finv[l].item => k = l


\* C24 as stated: an invocation that selected an item returns only through
\* mark_news_as_used: whatever its answer (200 skip, 200 insert, 400 for a
\* blank title or url, 400 for a failed extraction, 500 for a failed
\* classification or a refused insert) the item is used once the invocation
\* has returned, and no invocation selects an item that an invocation which
\* has returned had selected.
C24_SelectedItemAlwaysMarked ==
  /\ [](\A k \in Invocations :
          (finv[k].pc = "done" /\ finv[k].item # 0) =>
            IsUsed(news_extraction, finv[k].item))
  /\ [][\A k \in Invocations :
          /\ (finv[k].pc # "done" /\ finv'[k].pc = "done" /\ finv'[k].item # 0) =>
               /\ finv[k].pc = "mark"
               /\ IsUsed(news_extraction', finv[k].item)
          /\ (finv[k].pc = "idle" /\ finv'[k].item # 0) =>
               \A l \in Invocations :
                 ~(finv[l].pc = "done" /\ finv[l].item = finv'[k].item)]_vars


\* C25 as stated: after a 200 of the stage the Filter poller goes on without a
\* sleep only if the stage reported skipped = true, never after an insert, and
\* it always goes on without a sleep when the stage skipped the item for
\* another reason than duplication (non-news, relevance, locale interest).
C25_PollerAgreesWithStage ==
  \A p \in Pollers :
    (p[2] = "filter" /\ last[p].kind = "response" /\ last[p].status = 200) =>
      /\ slept[p] = 0 => last[p].skipped
      /\ (last[p].skipped /\ last[p].skip_reason # ReasonDuplication) =>
           slept[p] = 0


\* C26 as stated: every row Filter has added to the table news is stored with
\* brazil_interest true and so, its localized title being empty, is among the
\* rows Analyze's selection matches.
C26_RetainedItemsEligible ==
  \A n \in DOMAIN news :
    /\ "brazil_interest" \in DOMAIN news[n] /\ news[n].brazil_interest
    /\ n \in Eligible(news)


\* Invocation a ended without a successful rewrite: 400 for an empty title or
\* text, or 200 with a rewrite result that is no success
Unwritten(a) ==
  /\ ainv[a].pc = "done" /\ ainv[a].id # 0
  /\ \/ ainv[a].resp.status = 400
     \/ ainv[a].resp.status = 200 /\ ~ainv[a].resp.body.rewrite_result.success
OldestEligible(table) ==
  CHOOSE m \in Eligible(table) : \A o \in Eligible(table) : m <= o
\* Another invocation selected the row of a, and its successful rewrite is
\* past its update
RewrittenBeside(a) ==
  \E b \in AnalyzeInvocations \ {a} :
    /\ ainv[b].id = ainv[a].id /\ ainv[b].rewrite.result.success
    /\ ainv[b].pc \in {"poster", "done"}
\* The invocation that arrives in this step
Arrived == ainv'[analyses']
\* Invocation a ends in this step without a successful rewrite
EndsUnwritten(a) == ainv[a].pc # "done" /\ Unwritten(a)'
\* The next invocation arrives while the row of a, which ended without a
\* successful rewrite, is eligible
ArrivesAfterUnwritten(a) ==
  Unwritten(a) /\ ainv[a].id \in Eligible(news) /\ analyses' = analyses + 1

\* C27 as stated: when an invocation ends without a successful rewrite its
\* row is eligible, and while it is, the selection of the next invocation,
\* when it is answered, gives that row again and never another one.
C27_Original ==
  [][\A a \in AnalyzeInvocations :
       /\ EndsUnwritten(a) => ainv'[a].id \in Eligible(news')
       /\ ArrivesAfterUnwritten(a) => Arrived.id \in {0, ainv[a].id}]_vars

\* C27 amended: the step that ends an invocation without a successful rewrite
\* leaves the table as it was, and the row of the invocation is then eligible
\* unless another invocation selected it too and wrote its successful
\* rewrite; while the row is eligible the selection of the next invocation,
\* when it is answered, gives that row again and never another one; and no
\* row older than a selected one is eligible, so that no later row is
\* rewritten before it.
C27_FailedItemSelectedAgain ==
  /\ [](\A a \in AnalyzeInvocations :
          ainv[a].id # 0 => \A m \in Eligible(news) : m >= ainv[a].id)
  /\ [][\A a \in AnalyzeInvocations :
          /\ EndsUnwritten(a) =>
               /\ news' = news
               /\ ainv'[a].id \in Eligible(news') \/ RewrittenBeside(a)'
          /\ ArrivesAfterUnwritten(a) =>
               /\ Arrived.id \in {0, ainv[a].id}
               /\ Arrived.id = 0 => Arrived.resp \in FetchFailures]_vars

\* C27 witness: with two eligible rows, the first invocation took the first
\* row and ended without a successful rewrite, the second has again taken the
\* first row and again ended without one; the second row is still not
\* localized.
C27_Witness ==
  /\ analyses = MaxAnalyses
  /\ \A a \in AnalyzeInvocations :
       /\ ainv[a].id = 1 /\ Unwritten(a)
       /\ ainv[a].resp.status = 200
  /\ Eligible(news) = {1, 2}


\* Invocation k has ended with an answer after which fetch_filter takes its
\* `continue`: the next request follows without a sleep
BusyRetried(k) == finv[k].pc = "done" /\ FilterPolicy(finv[k].resp) = Continue

\* C28 as stated: every busy-retried iteration consumes a distinct item: an
\* invocation whose answer sends the Filter poller on without a sleep had
\* selected an item and leaves it used, and no two such invocations had
\* selected the same item, so that the iterations without a sleep are at most
\* as many as the unused items.
C28_BusyRetryEnds ==
  /\ \A k \in Invocations :
       BusyRetried(k) => finv[k].item # 0 /\ IsUsed(news_extraction, finv[k].item)
  /\ \A k, l \in Invocations :
       (BusyRetried(k) /\ BusyRetried(l) /\ finv[k].item = finv[l].item) => k = l


\* What fetch_wikipedia_info made of the answer invocation a got
LookupInfo(a) == fetch_wikipedia_info(ainv[a].wiki)
\* The answered invocation looked up a page whose description has a birth year
BirthYearFound(a) == EnrichedDeath(a) /\ LookupYears(ainv[a].wiki).birth # NoYear
\* The death year of the description, or 2025 when it has none
DeathYearOrDefault(a) ==
  IF LookupYears(ainv[a].wiki).death = NoYear
    THEN DefaultDeathYear ELSE LookupYears(ainv[a].wiki).death

\* The page the lookup of invocation a read is one the encyclopedia's search
\* API gives: its title is a string and its thumbnail, when it has one, has a
\* string for its url
SchemaPage(a) ==
  /\ ainv[a].wiki.pages[1].title # JsonNull
  /\ Get(ainv[a].wiki.pages[1].thumbnail, "url", "") # JsonNull

\* C29: the lookup never gives a birth year without a death year (2025 when
\* the description has none), and every answered invocation for a
\* death-related row with an entity whose page description has a birth year
\* carries the memorial poster, with that birth year, the death year found or
\* 2025, and the image the lookup gave, for every page of the search API.
C29_DeathYearDefaulted ==
  \A a \in AnalyzeInvocations :
    /\ (EnrichedDeath(a) /\ LookupInfo(a) # EmptyDict /\ LookupInfo(a).birth_year # NoYear) =>
         LookupInfo(a).death_year # NoYear
    /\ (BirthYearFound(a) /\ SchemaPage(a)) =>
         /\ HasPoster(ainv[a].resp.body, "memoriam")
         /\ ainv[a].resp.body.poster.birth = LookupYears(ainv[a].wiki).birth
         /\ ainv[a].resp.body.poster.death = DeathYearOrDefault(a)
         /\ ainv[a].resp.body.poster.image_url = LookupInfo(a).image_url
         /\ ainv[a].resp.body.wikipedia_info.death_year = DeathYearOrDefault(a)

\* C29 witness: the description of the page has a birth year and no death
\* year, and the response carries the memorial poster with death year 2025
\* and the original of the page's thumbnail.
C29_Witness ==
  \E a \in AnalyzeInvocations :
    /\ BirthYearFound(a)
    /\ LookupYears(ainv[a].wiki).death = NoYear
    /\ HasPoster(ainv[a].resp.body, "memoriam")
    /\ ainv[a].resp.body.poster.death = DefaultDeathYear
    /\ ainv[a].resp.body.poster.image_url =
         "https://upload.wikimedia.org/wikipedia/commons/a/ab/Ana.jpg"


\* C30: no state holds a stop flag that is true: stop_cronjob leaves the flag
\* table empty in the step in which it cancels the tasks, and start_cronjob
\* leaves it with the three flags false; so every evaluation of a loop
\* condition finds it true and sends the next request, no poller leaves its
\* loop, and a poller ends only by the cancellation stop_cronjob requested.
C30_StopFlagNeverSeen ==
  /\ [](/\ \A s \in DOMAIN stop_flags : ~stop_flags[s]
        /\ \A p \in Pollers : pc[p] \notin {"exited", "crashed"})
  /\ [][/\ (ctl' # ctl /\ ctl' = Result("stop", "ok")) =>
             /\ stop_flags' = EmptyDict /\ tasks' = EmptyDict
             /\ must_cancel' = must_cancel \cup {p \in Pollers : Registered(p) /\ Live(p)}
        /\ gen' # gen => stop_flags' = [s \in Stages |-> FALSE]
        /\ \A p \in Pollers :
             /\ (pc[p] \in {"ready", "sleep"} /\ pc'[p] # pc[p]) =>
                  pc'[p] \in {"call", "cancelled"}
             /\ (pc[p] \notin Finished /\ pc'[p] \in Finished) =>
                  /\ pc'[p] = "cancelled"
                  /\ p \in must_cancel /\ p \notin must_cancel'
                  /\ Stopped(p)]_vars

\* C30 witness: after a stop and a second start a poller of the first start
\* has ended by cancellation and the poller of the second start has
\* evaluated its loop condition and sent its request.
C30_Witness ==
  /\ gen = 2 /\ stop_flags = [s \in Stages |-> FALSE]
  /\ pc[<<1, "news">>] = "cancelled" /\ diedAt[<<1, "news">>] = "sleep"
  /\ pc[<<2, "news">>] = "call"

============================================================================
